---- MODULE Spec2Model ----
(***************************************************************************)
(* Model of the dealership REST backend: the tri-state payload decoding    *)
(* (utils/deserialization.rs), the per-resource partial-update resolvers   *)
(* (models/*.rs, Update*::update), the request handlers (services/*.rs)    *)
(* and offset pagination (Paginable::get_page, Pagination::new) over a     *)
(* relational store.                                                       *)
(***************************************************************************)
EXTENDS Integers, Sequences, FiniteSets, TLC

VARIABLES resource, table, req, started

vars == <<resource, table, req, started>>

(***************************************************************************)
(* Bounds of the model.                                                    *)
(***************************************************************************)
\* column values are drawn from 1..MaxVal
MaxVal == 2
\* a partial-update JSON body mentions at most this many keys
MaxMentioned == 2
\* requests started in one behaviour of the concurrent store specification
MaxRequests == 2
\* rows of the listed table
MaxRows == 3
\* largest page-no / per-page query parameter tried
MaxParam == 3

Vals == 1..MaxVal

(***************************************************************************)
(* Rust Option<T>: None is the empty sequence, Some(x) a one-element one.  *)
(***************************************************************************)
None == <<>>
Some(x) == <<x>>
IsSome(o) == Len(o) = 1
IsNone(o) == Len(o) = 0
Unwrap(o) == o[1]
UnwrapOr(o, d) == IF IsSome(o) THEN o[1] ELSE d
OptionOf(S) == {None} \cup {Some(x) : x \in S}

\* Result<T, E>: Err carries no payload here (a request-deserialization error)
Ok(x) == [ok |-> TRUE, val |-> <<x>>]
Err == [ok |-> FALSE, val |-> <<>>]
Get(r) == r.val[1]

(***************************************************************************)
(* One key of a JSON body: missing, present with null, present with value. *)
(***************************************************************************)
JMissing == [t |-> "missing", v |-> 0]
JNull == [t |-> "null", v |-> 0]
JVal(x) == [t |-> "val", v |-> x]
JMentioned == {JNull} \cup {JVal(x) : x \in Vals}

\* <String as Deserialize>::deserialize, <i32 as Deserialize>::deserialize:
\* JSON null is not a string or a number
DeserializeScalar(j) == IF j.t = "val" THEN Ok(j.v) ELSE Err

\* Option<Option<T>>::deserialize without double_option: null is the outer None
double_option_deserialize_plain(j) ==
    IF j.t = "null" THEN Ok(None) ELSE Ok(Some(Some(j.v)))

\* serde_with::rust::double_option::deserialize over Option<T>:
\* Option<T>::deserialize(d).map(Some)
double_option_deserialize(j) ==
    IF j.t = "null" THEN Ok(Some(None)) ELSE Ok(Some(Some(j.v)))

\* #[derive(Deserialize)] struct MaybeNull<T>(Option<Option<T>>) for a key
\* that is present in the body
MaybeNull_deserialize(j) == double_option_deserialize(j)

\* From<Option<T>> for MaybeNull<T>
MaybeNull_from(value) == Some(value)

\* what Option::unwrap leaves in place of a value when it panics on None
Panic == <<"panic", "unwrap on a None value">>

\* From<MaybeNull<T>> for Option<T>: value.0.unwrap()
MaybeNull_into(value) == IF IsSome(value) THEN Unwrap(value) ELSE Panic

\* deserialize_as_inner: Ok(Some(T::deserialize(deserializer)?))
deserialize_as_inner(inner) == IF inner.ok THEN Ok(Some(Get(inner))) ELSE Err

\* Default for MaybeAbsent<T>
MaybeAbsent_default == None

\* From<MaybeAbsent<T>> for Option<T>
MaybeAbsent_into(value) == value

\* variant: a null key is flattened into "not mentioned" (and_then instead of map)
MaybeAbsentMaybeNull_into_flatten(value) ==
    IF IsSome(value) /\ IsSome(Unwrap(value)) /\ IsSome(Unwrap(Unwrap(value)))
    THEN Some(MaybeNull_into(Unwrap(value)))
    ELSE None

\* From<MaybeAbsent<MaybeNull<T>>> for Option<Option<T>>:
\* optional_nullable.map(MaybeNull::into)
MaybeAbsentMaybeNull_into(value) ==
    IF IsSome(MaybeAbsent_into(value))
    THEN Some(MaybeNull_into(Unwrap(MaybeAbsent_into(value))))
    ELSE None

\* A MaybeAbsent<T> field of a #[serde(default)] struct, T a scalar
DeserializeMaybeAbsent(j) ==
    IF j.t = "missing" THEN Ok(MaybeAbsent_default)
    ELSE deserialize_as_inner(DeserializeScalar(j))

\* A MaybeAbsent<MaybeNull<T>> field of a #[serde(default)] struct
DeserializeMaybeAbsentMaybeNull(j) ==
    IF j.t = "missing" THEN Ok(MaybeAbsent_default)
    ELSE deserialize_as_inner(MaybeNull_deserialize(j))

\* A required scalar field (no default): a missing key is an error
DeserializeRequired(j) == IF j.t = "missing" THEN Err ELSE DeserializeScalar(j)

\* A required MaybeNull<T> field (no default): a missing key is an error
DeserializeRequiredMaybeNull(j) ==
    IF j.t = "missing" THEN Err ELSE MaybeNull_deserialize(j)


\* a struct deserializes only if every one of its fields does
AllOk(results) == \A i \in 1..Len(results) : results[i].ok

(***************************************************************************)
(* Client (models/client.rs, services/clients.rs)                          *)
(***************************************************************************)
ClientKeys == {"nationalId", "fullName", "mainPhoneNo", "secondaryPhoneNo", "email"}

\* struct UpdateClientPartiallyPayload: every field MaybeAbsent<String>,
\* #[serde(default)]
UpdateClientPartiallyPayload(j) ==
    LET national_id == DeserializeMaybeAbsent(j["nationalId"])
        full_name == DeserializeMaybeAbsent(j["fullName"])
        main_phone_no == DeserializeMaybeAbsent(j["mainPhoneNo"])
        secondary_phone_no == DeserializeMaybeAbsent(j["secondaryPhoneNo"])
        email == DeserializeMaybeAbsent(j["email"])
    IN  IF AllOk(<<national_id, full_name, main_phone_no, secondary_phone_no, email>>)
        THEN Ok([national_id |-> MaybeAbsent_into(Get(national_id)),
                 full_name |-> MaybeAbsent_into(Get(full_name)),
                 main_phone_no |-> MaybeAbsent_into(Get(main_phone_no)),
                 secondary_phone_no |-> MaybeAbsent_into(Get(secondary_phone_no)),
                 email |-> MaybeAbsent_into(Get(email))])
        ELSE Err

\* struct UpdateClientCompletelyPayload: every field a required String
UpdateClientCompletelyPayload(j) ==
    LET national_id == DeserializeRequired(j["nationalId"])
        full_name == DeserializeRequired(j["fullName"])
        main_phone_no == DeserializeRequired(j["mainPhoneNo"])
        secondary_phone_no == DeserializeRequired(j["secondaryPhoneNo"])
        email == DeserializeRequired(j["email"])
    IN  IF AllOk(<<national_id, full_name, main_phone_no, secondary_phone_no, email>>)
        THEN Ok([national_id |-> Some(Get(national_id)),
                 full_name |-> Some(Get(full_name)),
                 main_phone_no |-> Some(Get(main_phone_no)),
                 secondary_phone_no |-> Some(Get(secondary_phone_no)),
                 email |-> Some(Get(email))])
        ELSE Err

\* variant: unwrap_or_default() on secondary_phone_no, an absent key stores ""
UpdateClient_update_default(self, target) ==
    [national_id |-> UnwrapOr(self.national_id, target.national_id),
     full_name |-> UnwrapOr(self.full_name, target.full_name),
     main_phone_no |-> UnwrapOr(self.main_phone_no, target.main_phone_no),
     secondary_phone_no |-> UnwrapOr(self.secondary_phone_no, 0),
     email |-> UnwrapOr(self.email, target.email)]

\* UpdateClient::update, the values bound to $1..$5 of the UPDATE
UpdateClient_update(self, target) ==
    [national_id |-> UnwrapOr(self.national_id, target.national_id),
     full_name |-> UnwrapOr(self.full_name, target.full_name),
     main_phone_no |-> UnwrapOr(self.main_phone_no, target.main_phone_no),
     secondary_phone_no |-> UnwrapOr(self.secondary_phone_no, target.secondary_phone_no),
     email |-> UnwrapOr(self.email, target.email)]

\* serde's rendering of a Client record (rename_all = "camelCase")
ClientJson(r) ==
    [k \in ClientKeys |->
        CASE k = "nationalId" -> JVal(r.national_id)
          [] k = "fullName" -> JVal(r.full_name)
          [] k = "mainPhoneNo" -> JVal(r.main_phone_no)
          [] k = "secondaryPhoneNo" -> JVal(r.secondary_phone_no)
          [] k = "email" -> JVal(r.email)]

(***************************************************************************)
(* Role (models/role.rs, services/roles.rs)                                *)
(***************************************************************************)
RoleKeys == {"name", "description"}

\* struct UpdateRolePartiallyPayload
UpdateRolePartiallyPayload(j) ==
    LET name == DeserializeMaybeAbsent(j["name"])
        description == DeserializeMaybeAbsent(j["description"])
    IN  IF AllOk(<<name, description>>)
        THEN Ok([name |-> MaybeAbsent_into(Get(name)),
                 description |-> MaybeAbsent_into(Get(description))])
        ELSE Err

\* struct UpdateRoleCompletelyPayload
UpdateRoleCompletelyPayload(j) ==
    LET name == DeserializeRequired(j["name"])
        description == DeserializeRequired(j["description"])
    IN  IF AllOk(<<name, description>>)
        THEN Ok([name |-> Some(Get(name)), description |-> Some(Get(description))])
        ELSE Err

\* An UPDATE whose SET clause reads a column of the stored row:
\* SET name = $2, description = name
UpdateRole_update_old_column(self, target) ==
    [id |-> target.id,
     name |-> UnwrapOr(self.name, target.name),
     description |-> target.name]

\* UpdateRole::update: id is not a column the UPDATE sets
UpdateRole_update(self, target) ==
    [id |-> target.id,
     name |-> UnwrapOr(self.name, target.name),
     description |-> UnwrapOr(self.description, target.description)]

RoleJson(r) ==
    [k \in RoleKeys |->
        CASE k = "name" -> JVal(r.name)
          [] k = "description" -> JVal(r.description)]

(***************************************************************************)
(* City (models/city.rs, services/cities.rs)                               *)
(***************************************************************************)
CityKeys == {"name", "stateId"}

\* struct UpdateCityPartiallyPayload: Option fields read by deserialize_as_inner
UpdateCityPartiallyPayload(j) ==
    LET name == IF j["name"].t = "missing" THEN Ok(None)
                ELSE deserialize_as_inner(DeserializeScalar(j["name"]))
        state_id == IF j["stateId"].t = "missing" THEN Ok(None)
                    ELSE deserialize_as_inner(DeserializeScalar(j["stateId"]))
    IN  IF AllOk(<<name, state_id>>)
        THEN Ok([name |-> Get(name), state_id |-> Get(state_id)])
        ELSE Err

\* struct UpdateCityCompletelyPayload
UpdateCityCompletelyPayload(j) ==
    LET name == DeserializeRequired(j["name"])
        state_id == DeserializeRequired(j["stateId"])
    IN  IF AllOk(<<name, state_id>>)
        THEN Ok([name |-> Some(Get(name)), state_id |-> Some(Get(state_id))])
        ELSE Err

\* UpdateCity::update: city_number is not a column the UPDATE sets
UpdateCity_update(self, target) ==
    [city_number |-> target.city_number,
     name |-> UnwrapOr(self.name, target.name),
     state_id |-> UnwrapOr(self.state_id, target.state_id)]

CityJson(r) ==
    [k \in CityKeys |->
        CASE k = "name" -> JVal(r.name)
          [] k = "stateId" -> JVal(r.state_id)]

(***************************************************************************)
(* Vehicle (models/vehicle.rs, services/vehicles.rs)                       *)
(***************************************************************************)
VehicleKeys == {"plate", "brand", "modelId", "serialNo", "engineSerialNo", "color",
                "purchaseDate", "additionalInfo", "maintenanceSummary",
                "ownerNationalId"}

\* struct UpdateVehiclePartiallyPayload and the UpdateVehicle built from it:
\* additional_info and maintenance_summary are MaybeAbsent<MaybeNull<String>>
UpdateVehiclePartiallyPayload(j) ==
    LET plate == DeserializeMaybeAbsent(j["plate"])
        brand == DeserializeMaybeAbsent(j["brand"])
        model_id == DeserializeMaybeAbsent(j["modelId"])
        serial_no == DeserializeMaybeAbsent(j["serialNo"])
        engine_serial_no == DeserializeMaybeAbsent(j["engineSerialNo"])
        color == DeserializeMaybeAbsent(j["color"])
        purchase_date == DeserializeMaybeAbsent(j["purchaseDate"])
        additional_info == DeserializeMaybeAbsentMaybeNull(j["additionalInfo"])
        maintenance_summary == DeserializeMaybeAbsentMaybeNull(j["maintenanceSummary"])
        owner_national_id == DeserializeMaybeAbsent(j["ownerNationalId"])
    IN  IF AllOk(<<plate, brand, model_id, serial_no, engine_serial_no, color,
                   purchase_date, additional_info, maintenance_summary,
                   owner_national_id>>)
        THEN Ok([plate |-> MaybeAbsent_into(Get(plate)),
                 brand |-> MaybeAbsent_into(Get(brand)),
                 model_id |-> MaybeAbsent_into(Get(model_id)),
                 serial_no |-> MaybeAbsent_into(Get(serial_no)),
                 engine_serial_no |-> MaybeAbsent_into(Get(engine_serial_no)),
                 color |-> MaybeAbsent_into(Get(color)),
                 purchase_date |-> MaybeAbsent_into(Get(purchase_date)),
                 additional_info |-> MaybeAbsentMaybeNull_into(Get(additional_info)),
                 maintenance_summary |->
                     MaybeAbsentMaybeNull_into(Get(maintenance_summary)),
                 owner_national_id |-> MaybeAbsent_into(Get(owner_national_id))])
        ELSE Err

\* struct UpdateVehicleCompletelyPayload and the UpdateVehicle built from it:
\* additional_info and maintenance_summary are MaybeNull<String>
UpdateVehicleCompletelyPayload(j) ==
    LET plate == DeserializeRequired(j["plate"])
        brand == DeserializeRequired(j["brand"])
        model_id == DeserializeRequired(j["modelId"])
        serial_no == DeserializeRequired(j["serialNo"])
        engine_serial_no == DeserializeRequired(j["engineSerialNo"])
        color == DeserializeRequired(j["color"])
        purchase_date == DeserializeRequired(j["purchaseDate"])
        additional_info == DeserializeRequiredMaybeNull(j["additionalInfo"])
        maintenance_summary == DeserializeRequiredMaybeNull(j["maintenanceSummary"])
        owner_national_id == DeserializeRequired(j["ownerNationalId"])
    IN  IF AllOk(<<plate, brand, model_id, serial_no, engine_serial_no, color,
                   purchase_date, additional_info, maintenance_summary,
                   owner_national_id>>)
        THEN Ok([plate |-> Some(Get(plate)),
                 brand |-> Some(Get(brand)),
                 model_id |-> Some(Get(model_id)),
                 serial_no |-> Some(Get(serial_no)),
                 engine_serial_no |-> Some(Get(engine_serial_no)),
                 color |-> Some(Get(color)),
                 purchase_date |-> Some(Get(purchase_date)),
                 additional_info |-> Some(MaybeNull_into(Get(additional_info))),
                 maintenance_summary |-> Some(MaybeNull_into(Get(maintenance_summary))),
                 owner_national_id |-> Some(Get(owner_national_id))])
        ELSE Err

\* UpdateVehicle::update, the values bound to $1..$10 of the UPDATE
UpdateVehicle_update(self, target) ==
    [plate |-> UnwrapOr(self.plate, target.plate),
     brand |-> UnwrapOr(self.brand, target.brand),
     model_id |-> UnwrapOr(self.model_id, target.model_id),
     serial_no |-> UnwrapOr(self.serial_no, target.serial_no),
     engine_serial_no |-> UnwrapOr(self.engine_serial_no, target.engine_serial_no),
     color |-> UnwrapOr(self.color, target.color),
     purchase_date |-> UnwrapOr(self.purchase_date, target.purchase_date),
     additional_info |-> UnwrapOr(self.additional_info, target.additional_info),
     maintenance_summary |->
         UnwrapOr(self.maintenance_summary, target.maintenance_summary),
     owner_national_id |-> UnwrapOr(self.owner_national_id, target.owner_national_id)]

\* serde's rendering of an Option<String> column: None is JSON null
OptionJson(o) == IF IsSome(o) THEN JVal(Unwrap(o)) ELSE JNull

VehicleJson(r) ==
    [k \in VehicleKeys |->
        CASE k = "plate" -> JVal(r.plate)
          [] k = "brand" -> JVal(r.brand)
          [] k = "modelId" -> JVal(r.model_id)
          [] k = "serialNo" -> JVal(r.serial_no)
          [] k = "engineSerialNo" -> JVal(r.engine_serial_no)
          [] k = "color" -> JVal(r.color)
          [] k = "purchaseDate" -> JVal(r.purchase_date)
          [] k = "additionalInfo" -> OptionJson(r.additional_info)
          [] k = "maintenanceSummary" -> OptionJson(r.maintenance_summary)
          [] k = "ownerNationalId" -> JVal(r.owner_national_id)]

(***************************************************************************)
(* Dealership (models/dealership.rs, services/dealerships.rs)              *)
(***************************************************************************)
DealershipKeys == {"rif", "name", "cityNumber", "stateId", "managerNationalId"}

\* struct UpdateDealershipPartiallyPayload and the UpdateDealership built from
\* it: manager_national_id is MaybeAbsent<String>, not MaybeAbsent<MaybeNull<_>>
UpdateDealershipPartiallyPayload(j) ==
    LET rif == DeserializeMaybeAbsent(j["rif"])
        name == DeserializeMaybeAbsent(j["name"])
        city_number == DeserializeMaybeAbsent(j["cityNumber"])
        state_id == DeserializeMaybeAbsent(j["stateId"])
        manager_national_id == DeserializeMaybeAbsent(j["managerNationalId"])
    IN  IF AllOk(<<rif, name, city_number, state_id, manager_national_id>>)
        THEN Ok([rif |-> MaybeAbsent_into(Get(rif)),
                 name |-> MaybeAbsent_into(Get(name)),
                 city_number |-> MaybeAbsent_into(Get(city_number)),
                 state_id |-> MaybeAbsent_into(Get(state_id)),
                 manager_national_id |-> MaybeAbsent_into(Get(manager_national_id))])
        ELSE Err

\* struct UpdateDealershipCompletelyPayload: manager_national_id is a String
UpdateDealershipCompletelyPayload(j) ==
    LET rif == DeserializeRequired(j["rif"])
        name == DeserializeRequired(j["name"])
        city_number == DeserializeRequired(j["cityNumber"])
        state_id == DeserializeRequired(j["stateId"])
        manager_national_id == DeserializeRequired(j["managerNationalId"])
    IN  IF AllOk(<<rif, name, city_number, state_id, manager_national_id>>)
        THEN Ok([rif |-> Some(Get(rif)),
                 name |-> Some(Get(name)),
                 city_number |-> Some(Get(city_number)),
                 state_id |-> Some(Get(state_id)),
                 manager_national_id |-> Some(Get(manager_national_id))])
        ELSE Err

\* UpdateDealership::update: manager_national_id is an Option<String> on both
\* sides, taken from self when it is Some and from target otherwise
UpdateDealership_update(self, target) ==
    [rif |-> UnwrapOr(self.rif, target.rif),
     name |-> UnwrapOr(self.name, target.name),
     city_number |-> UnwrapOr(self.city_number, target.city_number),
     state_id |-> UnwrapOr(self.state_id, target.state_id),
     manager_national_id |->
         IF IsSome(self.manager_national_id)
         THEN self.manager_national_id
         ELSE target.manager_national_id]

DealershipJson(r) ==
    [k \in DealershipKeys |->
        CASE k = "rif" -> JVal(r.rif)
          [] k = "name" -> JVal(r.name)
          [] k = "cityNumber" -> JVal(r.city_number)
          [] k = "stateId" -> JVal(r.state_id)
          [] k = "managerNationalId" -> OptionJson(r.manager_national_id)]

(***************************************************************************)
(* Activity price (models/activity_price.rs, services/activities_prices.rs)*)
(***************************************************************************)
ActivityPriceKeys == {"activityNumber", "serviceId", "dealershipRif", "pricePerHour"}

\* struct UpdateActivityPricePartiallyPayload and the UpdateActivityPrice
\* built from it
UpdateActivityPricePartiallyPayload(j) ==
    LET f == [k \in ActivityPriceKeys |-> DeserializeMaybeAbsent(j[k])]
    IN  IF \A k \in ActivityPriceKeys : f[k].ok
        THEN Ok([activity_number |-> MaybeAbsent_into(Get(f["activityNumber"])),
                 service_id |-> MaybeAbsent_into(Get(f["serviceId"])),
                 dealership_rif |-> MaybeAbsent_into(Get(f["dealershipRif"])),
                 price_per_hour |-> MaybeAbsent_into(Get(f["pricePerHour"]))])
        ELSE Err

\* struct UpdateActivityPriceCompletelyPayload
UpdateActivityPriceCompletelyPayload(j) ==
    LET f == [k \in ActivityPriceKeys |-> DeserializeRequired(j[k])]
    IN  IF \A k \in ActivityPriceKeys : f[k].ok
        THEN Ok([activity_number |-> Some(Get(f["activityNumber"])),
                 service_id |-> Some(Get(f["serviceId"])),
                 dealership_rif |-> Some(Get(f["dealershipRif"])),
                 price_per_hour |-> Some(Get(f["pricePerHour"]))])
        ELSE Err

\* UpdateActivityPrice::update
UpdateActivityPrice_update(self, target) ==
    [activity_number |-> UnwrapOr(self.activity_number, target.activity_number),
     service_id |-> UnwrapOr(self.service_id, target.service_id),
     dealership_rif |-> UnwrapOr(self.dealership_rif, target.dealership_rif),
     price_per_hour |-> UnwrapOr(self.price_per_hour, target.price_per_hour)]

ActivityPriceJson(r) ==
    [k \in ActivityPriceKeys |->
        CASE k = "activityNumber" -> JVal(r.activity_number)
          [] k = "serviceId" -> JVal(r.service_id)
          [] k = "dealershipRif" -> JVal(r.dealership_rif)
          [] k = "pricePerHour" -> JVal(r.price_per_hour)]

(***************************************************************************)
(* Dispatch over the resource of the behaviour.  The handlers of every     *)
(* service file have the same shape; what differs per resource is the      *)
(* payload struct, the Update*::update resolver, the key columns and the   *)
(* map_err arms.                                                           *)
(***************************************************************************)
JsonKeys(res) ==
    CASE res = "client" -> ClientKeys
      [] res = "vehicle" -> VehicleKeys
      [] res = "dealership" -> DealershipKeys
      [] res = "role" -> RoleKeys
      [] res = "city" -> CityKeys
      [] res = "activity_price" -> ActivityPriceKeys

\* #[serde(deny_unknown_fields)]: a key that is no field of the struct
UnknownKeys(keys, j) == {k \in DOMAIN j : k \notin keys /\ j[k] # JMissing}

\* A struct without the attribute: undeclared keys are skipped
deny_unknown_fields_ignored(keys, j, payload) == payload

deny_unknown_fields(keys, j, payload) ==
    IF UnknownKeys(keys, j) # {} THEN Err ELSE payload

PartiallyPayload(res, j) ==
    deny_unknown_fields(JsonKeys(res), j,
        CASE res = "client" -> UpdateClientPartiallyPayload(j)
          [] res = "vehicle" -> UpdateVehiclePartiallyPayload(j)
          [] res = "dealership" -> UpdateDealershipPartiallyPayload(j)
          [] res = "role" -> UpdateRolePartiallyPayload(j)
          [] res = "city" -> UpdateCityPartiallyPayload(j)
          [] res = "activity_price" -> UpdateActivityPricePartiallyPayload(j))

CompletelyPayload(res, j) ==
    deny_unknown_fields(JsonKeys(res), j,
        CASE res = "client" -> UpdateClientCompletelyPayload(j)
          [] res = "vehicle" -> UpdateVehicleCompletelyPayload(j)
          [] res = "dealership" -> UpdateDealershipCompletelyPayload(j)
          [] res = "role" -> UpdateRoleCompletelyPayload(j)
          [] res = "city" -> UpdateCityCompletelyPayload(j)
          [] res = "activity_price" -> UpdateActivityPriceCompletelyPayload(j))

Update_update(res, self, target) ==
    CASE res = "client" -> UpdateClient_update(self, target)
      [] res = "vehicle" -> UpdateVehicle_update(self, target)
      [] res = "dealership" -> UpdateDealership_update(self, target)
      [] res = "role" -> UpdateRole_update(self, target)
      [] res = "city" -> UpdateCity_update(self, target)
      [] res = "activity_price" -> UpdateActivityPrice_update(self, target)

RecordJson(res, r) ==
    CASE res = "client" -> ClientJson(r)
      [] res = "vehicle" -> VehicleJson(r)
      [] res = "dealership" -> DealershipJson(r)
      [] res = "role" -> RoleJson(r)
      [] res = "city" -> CityJson(r)
      [] res = "activity_price" -> ActivityPriceJson(r)

\* the columns of the WHERE clause of select / update / delete
KeyOf(res, r) ==
    CASE res = "client" -> <<r.national_id>>
      [] res = "vehicle" -> <<r.plate>>
      [] res = "dealership" -> <<r.rif>>
      [] res = "role" -> <<r.id>>
      [] res = "city" -> <<r.city_number, r.state_id>>
      [] res = "activity_price" -> <<r.activity_number, r.service_id, r.dealership_rif>>

\* the query parameters of *ManipulationParams
RequestKeys(res) ==
    IF res = "city" THEN {<<n, s>> : n \in Vals, s \in Vals} ELSE {<<k>> : k \in Vals}

(***************************************************************************)
(* Create payloads (struct Create*Payload) and the Insert* built from them *)
(***************************************************************************)
\* struct CreateClientPayload -> InsertClient
CreateClientPayload(j) ==
    LET f == [k \in ClientKeys |-> DeserializeRequired(j[k])]
    IN  IF \A k \in ClientKeys : f[k].ok
        THEN Ok([national_id |-> Get(f["nationalId"]),
                 full_name |-> Get(f["fullName"]),
                 main_phone_no |-> Get(f["mainPhoneNo"]),
                 secondary_phone_no |-> Get(f["secondaryPhoneNo"]),
                 email |-> Get(f["email"])])
        ELSE Err

\* struct CreateRolePayload -> InsertRole
CreateRolePayload(j) ==
    LET f == [k \in RoleKeys |-> DeserializeRequired(j[k])]
    IN  IF \A k \in RoleKeys : f[k].ok
        THEN Ok([name |-> Get(f["name"]), description |-> Get(f["description"])])
        ELSE Err

\* struct CreateCityPayload -> InsertCity
CreateCityPayload(j) ==
    LET f == [k \in CityKeys |-> DeserializeRequired(j[k])]
    IN  IF \A k \in CityKeys : f[k].ok
        THEN Ok([name |-> Get(f["name"]), state_id |-> Get(f["stateId"])])
        ELSE Err

\* struct CreateVehiclePayload -> InsertVehicle: additional_info and
\* maintenance_summary are MaybeNull<String>, converted with into()
CreateVehiclePayload(j) ==
    LET f == [k \in VehicleKeys |->
                IF k \in {"additionalInfo", "maintenanceSummary"}
                THEN DeserializeRequiredMaybeNull(j[k])
                ELSE DeserializeRequired(j[k])]
    IN  IF \A k \in VehicleKeys : f[k].ok
        THEN Ok([plate |-> Get(f["plate"]),
                 brand |-> Get(f["brand"]),
                 model_id |-> Get(f["modelId"]),
                 serial_no |-> Get(f["serialNo"]),
                 engine_serial_no |-> Get(f["engineSerialNo"]),
                 color |-> Get(f["color"]),
                 purchase_date |-> Get(f["purchaseDate"]),
                 additional_info |-> MaybeNull_into(Get(f["additionalInfo"])),
                 maintenance_summary |-> MaybeNull_into(Get(f["maintenanceSummary"])),
                 owner_national_id |-> Get(f["ownerNationalId"])])
        ELSE Err

\* struct CreateDealershipPayload -> InsertDealership: manager_national_id
\* is MaybeNull<String>
CreateDealershipPayload(j) ==
    LET f == [k \in DealershipKeys |->
                IF k = "managerNationalId"
                THEN DeserializeRequiredMaybeNull(j[k])
                ELSE DeserializeRequired(j[k])]
    IN  IF \A k \in DealershipKeys : f[k].ok
        THEN Ok([rif |-> Get(f["rif"]),
                 name |-> Get(f["name"]),
                 city_number |-> Get(f["cityNumber"]),
                 state_id |-> Get(f["stateId"]),
                 manager_national_id |-> MaybeNull_into(Get(f["managerNationalId"]))])
        ELSE Err

\* struct CreateActivityPricePayload -> InsertActivityPrice
CreateActivityPricePayload(j) ==
    LET f == [k \in ActivityPriceKeys |-> DeserializeRequired(j[k])]
    IN  IF \A k \in ActivityPriceKeys : f[k].ok
        THEN Ok([activity_number |-> Get(f["activityNumber"]),
                 service_id |-> Get(f["serviceId"]),
                 dealership_rif |-> Get(f["dealershipRif"]),
                 price_per_hour |-> Get(f["pricePerHour"])])
        ELSE Err

CreatePayload(res, j) ==
    deny_unknown_fields(JsonKeys(res), j,
        CASE res = "client" -> CreateClientPayload(j)
          [] res = "vehicle" -> CreateVehiclePayload(j)
          [] res = "dealership" -> CreateDealershipPayload(j)
          [] res = "role" -> CreateRolePayload(j)
          [] res = "city" -> CreateCityPayload(j)
          [] res = "activity_price" -> CreateActivityPricePayload(j))

(***************************************************************************)
(* The store: one table, a set of rows with pairwise distinct keys.        *)
(***************************************************************************)
Matching(res, key, tbl) == {r \in tbl : KeyOf(res, r) = key}

\* X::select: fetch_one of SELECT ... WHERE key; no row is RowNotFound
select(res, key, tbl) ==
    IF Matching(res, key, tbl) = {} THEN None
    ELSE Some(CHOOSE r \in Matching(res, key, tbl) : TRUE)

\* The rows of the tables that foreign keys refer to.  No modelled request
\* writes them; a value outside this set refers to no row.
ParentIds == Vals

\* the JSON keys of the columns of r that refer to another table, with the
\* value each carries (a NULL refers to nothing)
ForeignKeys(res, r) ==
    CASE res = "vehicle" ->
            {<<"modelId", r.model_id>>, <<"ownerNationalId", r.owner_national_id>>}
      [] res = "dealership" ->
            {<<"cityNumber", r.city_number>>, <<"stateId", r.state_id>>}
                \cup (IF IsSome(r.manager_national_id)
                      THEN {<<"managerNationalId", Unwrap(r.manager_national_id)>>}
                      ELSE {})
      [] res = "city" -> {<<"stateId", r.state_id>>}
      [] res = "activity_price" ->
            {<<"activityNumber", r.activity_number>>, <<"serviceId", r.service_id>>,
             <<"dealershipRif", r.dealership_rif>>}
      [] OTHER -> {}

DanglingKeys(res, r) == {f[1] : f \in {g \in ForeignKeys(res, r) : g[2] \notin ParentIds}}

\* the unique constraints: the primary key, and for a dealership its manager
UniqueClash(res, a, b) ==
    \/ KeyOf(res, a) = KeyOf(res, b)
    \/ /\ res = "dealership"
       /\ IsSome(a.manager_national_id)
       /\ a.manager_national_id = b.manager_national_id

\* what the store answers to UPDATE ... SET new WHERE key = old key
\* RETURNING ..., read with fetch_one
UpdateOutcome(res, new, oldKey, tbl) ==
    IF Matching(res, oldKey, tbl) = {} THEN "RowNotFound"
    ELSE IF \E r \in tbl \ Matching(res, oldKey, tbl) : UniqueClash(res, new, r)
         THEN "unique_violation"
    ELSE IF DanglingKeys(res, new) # {} THEN "foreign_key_violation"
    ELSE "none"

\* The keys of stored records that rows of other tables refer to: an
\* activity price refers to its dealership, a dealership to its city.  No
\* modelled request writes those rows.
ReferencedKeys(res) ==
    CASE res = "dealership" -> {<<1>>}
      [] res = "city" -> {<<1, 1>>}
      [] OTHER -> {}

\* what the store answers to DELETE ... WHERE key RETURNING ..., read with
\* fetch_one
DeleteOutcome(res, key, tbl) ==
    IF Matching(res, key, tbl) = {} THEN "RowNotFound"
    ELSE IF key \in ReferencedKeys(res) THEN "foreign_key_violation"
    ELSE "none"

Max(S) == CHOOSE x \in S : \A y \in S : y <= x

\* the value a serial key column takes on INSERT
NextSerial(res, tbl) ==
    1 + Max({0} \cup {KeyOf(res, r)[1] : r \in tbl})

\* An INSERT that binds the role's name and description the wrong way round
Insert_insert_swapped(res, self, tbl) ==
    CASE res = "role" ->
            [id |-> NextSerial(res, tbl), name |-> self.description,
             description |-> self.name]
      [] res = "city" ->
            [city_number |-> NextSerial(res, tbl), name |-> self.name,
             state_id |-> self.state_id]
      [] OTHER -> self

\* Insert*::insert: the row INSERT ... RETURNING would store.  roles.id and
\* cities.city_number are not bound by the statement: the store assigns them
Insert_insert(res, self, tbl) ==
    CASE res = "role" ->
            [id |-> NextSerial(res, tbl), name |-> self.name,
             description |-> self.description]
      [] res = "city" ->
            [city_number |-> NextSerial(res, tbl), name |-> self.name,
             state_id |-> self.state_id]
      [] OTHER -> self

\* what the store answers to the INSERT
InsertOutcome(res, new, tbl) ==
    IF \E r \in tbl : UniqueClash(res, new, r) THEN "unique_violation"
    ELSE IF DanglingKeys(res, new) # {} THEN "foreign_key_violation"
    ELSE "none"

(***************************************************************************)
(* Responses.                                                              *)
(***************************************************************************)
\* the variants of ServiceError
ServiceErrorKinds ==
    {"DomainValidationError", "ResourceNotFound", "MissingQueryParamError",
     "InvalidQueryParamValueError", "InvalidUpdateError", "InvalidCreateError",
     "UnexpectedError"}

\* A status_code that answers every variant with the same status
status_code_bad_request(kind) == 400

\* ServiceError::status_code
status_code(kind) ==
    CASE kind = "DomainValidationError" -> 400
      [] kind = "ResourceNotFound" -> 404
      [] kind = "MissingQueryParamError" -> 400
      [] kind = "InvalidQueryParamValueError" -> 422
      [] kind = "InvalidUpdateError" -> 400
      [] kind = "InvalidCreateError" -> 400
      [] kind = "UnexpectedError" -> 500

NoResp ==
    [kind |-> "none", msg |-> "", data |-> <<>>, pagination |-> None, status |-> 0]

\* Ok(Json(NonPaginatedResponseDto { data })) or HttpResponse::build(StatusCode::OK)
OkResp(rows) ==
    [kind |-> "Ok", msg |-> "", data |-> rows, pagination |-> None, status |-> 200]

\* the name a handler gives its resource in ResourceNotFound
ResourceName(res) == IF res = "activity_price" THEN "activity price" ELSE res

\* A Display that renders the wrapped cause of an UnexpectedError
Display_cause(kind, arg) ==
    IF kind = "ResourceNotFound"
    THEN "There is not any " \o arg \o " with the given id"
    ELSE arg

\* #[error(..)] of ServiceError: the text of format!("{}", self), where arg
\* is the variant's field (for UnexpectedError the wrapped cause)
Display(kind, arg) ==
    IF kind = "ResourceNotFound"
    THEN "There is not any " \o arg \o " with the given id"
    ELSE IF kind = "UnexpectedError" THEN ""
    ELSE arg

\* ServiceError::error_response: the status of the variant, the rendered
\* text as body
ErrResp(kind, arg) ==
    [kind |-> kind, msg |-> Display(kind, arg), data |-> <<>>, pagination |-> None,
     status |-> status_code(kind)]

\* the Json<T> extractor failing before the handler body runs; the framework
\* answers it itself, with 400 Bad Request
JsonPayloadError ==
    [kind |-> "JsonPayloadError", msg |-> "", data |-> <<>>, pagination |-> None,
     status |-> 400]

\* A map_err of X::select without the RowNotFound arm
select_map_err_no_arm(res, err) == ErrResp("UnexpectedError", err)

\* map_err of X::select in fetch / update handlers
select_map_err(res, err) ==
    IF err = "RowNotFound" THEN ErrResp("ResourceNotFound", ResourceName(res))
    ELSE ErrResp("UnexpectedError", err)

\* map_err of Update*::update in update_*_partially / update_*_completely
update_map_err(res, err) ==
    CASE res = "client" ->
            IF err = "unique_violation"
            THEN ErrResp("InvalidUpdateError", "The specified nationalId already exists")
            ELSE ErrResp("UnexpectedError", err)
      [] res = "vehicle" ->
            IF err = "unique_violation"
            THEN ErrResp("InvalidUpdateError", "The specified plate already exists")
            ELSE IF err = "foreign_key_violation"
            THEN ErrResp("InvalidUpdateError", "The specified modelId does not exist")
            ELSE ErrResp("UnexpectedError", err)
      [] res = "dealership" ->
            IF err = "unique_violation"
            THEN ErrResp("InvalidUpdateError",
                         "The specified rif already exists or the specified managerNationalId is already being used")
            ELSE IF err = "foreign_key_violation"
            THEN ErrResp("InvalidUpdateError",
                         "The specified cityNumber, stateId or managerNationalId does not exist")
            ELSE ErrResp("UnexpectedError", err)
      [] res = "role" -> ErrResp("UnexpectedError", err)
      [] res = "city" ->
            IF err = "foreign_key_violation"
            THEN ErrResp("InvalidUpdateError", "The specified stateId does not exist")
            ELSE ErrResp("UnexpectedError", err)
      [] res = "activity_price" ->
            IF err = "foreign_key_violation"
            THEN ErrResp("InvalidUpdateError",
                         "One of the specified values for the following keys does not exist: activityNumber, serviceId, dealershipRif")
            ELSE ErrResp("UnexpectedError", err)

\* map_err of Insert*::insert in create_*
create_map_err(res, err) ==
    CASE res = "client" ->
            IF err = "unique_violation"
            THEN ErrResp("InvalidCreateError", "The specified nationalId already exists")
            ELSE ErrResp("UnexpectedError", err)
      [] res = "vehicle" ->
            IF err = "unique_violation"
            THEN ErrResp("InvalidCreateError", "The specified plate already exists")
            ELSE IF err = "foreign_key_violation"
            THEN ErrResp("InvalidCreateError", "The specified modelId does not exist")
            ELSE ErrResp("UnexpectedError", err)
      [] res = "dealership" ->
            IF err = "unique_violation"
            THEN ErrResp("InvalidCreateError",
                         "The specified rif already exists or the specified managerNationalId is already being used")
            ELSE IF err = "foreign_key_violation"
            THEN ErrResp("InvalidCreateError",
                         "The specified cityNumber, stateId or managerNationalId does not exist")
            ELSE ErrResp("UnexpectedError", err)
      [] res = "role" -> ErrResp("UnexpectedError", err)
      [] res = "city" ->
            IF err = "foreign_key_violation"
            THEN ErrResp("InvalidCreateError", "The specified stateId does not exist")
            ELSE ErrResp("UnexpectedError", err)
      [] res = "activity_price" ->
            IF err = "foreign_key_violation"
            THEN ErrResp("InvalidCreateError",
                         "One of the specified values for the following keys does not exist: activityNumber, serviceId, dealershipRif")
            ELSE ErrResp("UnexpectedError", err)

\* A map_err of X::delete without the RowNotFound arm
delete_map_err_no_arm(res, err) == ErrResp("UnexpectedError", err)

\* A map_err of X::delete with an arm for foreign-key violations
delete_map_err_fk_arm(res, err) ==
    IF err = "RowNotFound" THEN ErrResp("ResourceNotFound", ResourceName(res))
    ELSE IF err = "foreign_key_violation"
    THEN ErrResp("InvalidUpdateError", "The record is still referenced")
    ELSE ErrResp("UnexpectedError", err)

\* map_err of X::delete in delete_*
delete_map_err(res, err) ==
    IF err = "RowNotFound" THEN ErrResp("ResourceNotFound", ResourceName(res))
    ELSE ErrResp("UnexpectedError", err)

(***************************************************************************)
(* Inputs: stored rows and JSON bodies, drawn from bounded sets.           *)
(***************************************************************************)
ClientRow(id, a, b) ==
    [national_id |-> id, full_name |-> a, main_phone_no |-> b,
     secondary_phone_no |-> a, email |-> b]

VehicleRow(id, a, b, info, summary) ==
    [plate |-> id, brand |-> a, model_id |-> b, serial_no |-> a,
     engine_serial_no |-> b, color |-> a, purchase_date |-> b,
     additional_info |-> info, maintenance_summary |-> summary,
     owner_national_id |-> a]

DealershipRow(id, a, b, manager) ==
    [rif |-> id, name |-> a, city_number |-> b, state_id |-> a,
     manager_national_id |-> manager]

RoleRow(id, a, b) == [id |-> id, name |-> a, description |-> b]

CityRow(number, a, state) == [city_number |-> number, name |-> a, state_id |-> state]

ActivityPriceRow(activity, service, rif, price) ==
    [activity_number |-> activity, service_id |-> service, dealership_rif |-> rif,
     price_per_hour |-> price]

\* the rows a single-row table starts with
SampleRows(res) ==
    CASE res = "client" -> {ClientRow(1, a, b) : a \in Vals, b \in Vals}
      [] res = "vehicle" ->
            {VehicleRow(1, ab[1], ab[2], io[1], io[2]) :
                ab \in {<<1, 2>>, <<2, 1>>}, io \in OptionOf(Vals) \X OptionOf(Vals)}
      [] res = "dealership" ->
            {DealershipRow(1, ab[1], ab[2], m) : ab \in Vals \X Vals, m \in OptionOf(Vals)}
      [] res = "role" -> {RoleRow(1, a, b) : a \in Vals, b \in Vals}
      [] res = "city" -> {CityRow(1, a, 1) : a \in Vals}

\* bodies of a PATCH: at most n keys present, each drawn from mentioned
PartialBodies(keys, n, mentioned) ==
    UNION { { [k \in keys |-> IF k \in S THEN g[k] ELSE JMissing] : g \in [S -> mentioned] } :
            S \in {T \in SUBSET keys : Cardinality(T) <= n} }

\* at most MaxMentioned keys present, each null or a value
PartialJsonsOver(keys) == PartialBodies(keys, MaxMentioned, JMentioned)

ClientPartialJsons == PartialJsonsOver(ClientKeys)
VehiclePartialJsons == PartialJsonsOver(VehicleKeys)
DealershipPartialJsons == PartialJsonsOver(DealershipKeys)
RolePartialJsons == PartialJsonsOver(RoleKeys)
CityPartialJsons == PartialJsonsOver(CityKeys)

PartialJsons(res) ==
    CASE res = "client" -> ClientPartialJsons
      [] res = "vehicle" -> VehiclePartialJsons
      [] res = "dealership" -> DealershipPartialJsons
      [] res = "role" -> RolePartialJsons
      [] res = "city" -> CityPartialJsons

\* bodies of a PUT: the rendering of a record, or one with a single key
\* replaced by null or left out
CompleteJsonsOver(res) ==
    LET whole == {RecordJson(res, r) : r \in SampleRows(res)}
    IN  whole \cup { [b EXCEPT ![k] = x] :
                        b \in whole, k \in JsonKeys(res), x \in {JNull, JMissing} }

ClientCompleteJsons == CompleteJsonsOver("client")
VehicleCompleteJsons == CompleteJsonsOver("vehicle")
DealershipCompleteJsons == CompleteJsonsOver("dealership")
RoleCompleteJsons == CompleteJsonsOver("role")
CityCompleteJsons == CompleteJsonsOver("city")

CompleteJsons(res) ==
    CASE res = "client" -> ClientCompleteJsons
      [] res = "vehicle" -> VehicleCompleteJsons
      [] res = "dealership" -> DealershipCompleteJsons
      [] res = "role" -> RoleCompleteJsons
      [] res = "city" -> CityCompleteJsons

(***************************************************************************)
(* Requests.  req[p] is the request worker p is serving or has last        *)
(* served: its inputs, the values the handler holds across an await, the   *)
(* statements it sent to the store and its response.  seen is a history    *)
(* field: the rows the table held when a list request read its data.       *)
(***************************************************************************)
Procs == {1, 2}

NoParams == [per_page |-> None, page_no |-> None]

IdleReq ==
    [pc |-> "idle", op |-> "none", key |-> <<>>, json |-> None, upd |-> None,
     target |-> None, resolved |-> None, dberr |-> "none", params |-> NoParams,
     items |-> <<>>, seen |-> {}, sql |-> <<>>, resp |-> NoResp]

Stmt(kind, limit, offset) == [stmt |-> kind, limit |-> limit, offset |-> offset]

CanStart(p) == req[p].pc \in {"idle", "done"}

\* update_*_partially / update_*_completely up to the first await: the
\* extractors, then X::select and its map_err
update_fetch(p, op, key, json, payload) ==
    /\ CanStart(p)
    /\ started' = started + 1
    /\ req' = [req EXCEPT ![p] =
          IF ~payload.ok
          THEN [IdleReq EXCEPT !.pc = "done", !.op = op, !.key = key,
                               !.json = Some(json), !.resp = JsonPayloadError]
          ELSE IF IsNone(select(resource, key, table))
          THEN [IdleReq EXCEPT !.pc = "done", !.op = op, !.key = key,
                               !.json = Some(json), !.upd = Some(Get(payload)),
                               !.dberr = "RowNotFound",
                               !.sql = <<Stmt("select", 0, 0)>>,
                               !.resp = select_map_err(resource, "RowNotFound")]
          ELSE [IdleReq EXCEPT !.pc = "fetched", !.op = op, !.key = key,
                               !.json = Some(json), !.upd = Some(Get(payload)),
                               !.target = select(resource, key, table),
                               !.sql = <<Stmt("select", 0, 0)>>]]
    /\ UNCHANGED <<resource, table>>

\* #[patch] update_*_partially, first half
update_partially_fetch(p, keys, bodies) ==
    \E key \in keys, json \in bodies :
        update_fetch(p, "update_partially", key, json, PartiallyPayload(resource, json))

\* #[put] update_*_completely, first half
update_completely_fetch(p, keys, bodies) ==
    \E key \in keys, json \in bodies :
        update_fetch(p, "update_completely", key, json, CompletelyPayload(resource, json))

\* A write whose WHERE clause binds the key of the new values instead of
\* the key of the fetched record
update_write_where_new_key(p) ==
    /\ req[p].pc = "fetched"
    /\ LET target == Unwrap(req[p].target)
           new == Update_update(resource, Unwrap(req[p].upd), target)
           err == UpdateOutcome(resource, new, KeyOf(resource, new), table)
       IN  /\ table' = IF err = "none"
                       THEN (table \ Matching(resource, KeyOf(resource, new), table))
                                \cup {new}
                       ELSE table
           /\ req' = [req EXCEPT ![p].pc = "done",
                                 ![p].resolved = Some(new),
                                 ![p].dberr = err,
                                 ![p].sql = Append(@, Stmt("update", 0, 0)),
                                 ![p].resp = IF err = "none" THEN OkResp(<<new>>)
                                             ELSE update_map_err(resource, err)]
    /\ UNCHANGED <<resource, started>>

\* A write made of two statements, a DELETE of the fetched row and an INSERT
\* of the new one: when the INSERT is rejected the row is gone
update_write_delete_insert(p) ==
    /\ req[p].pc = "fetched"
    /\ LET target == Unwrap(req[p].target)
           new == Update_update(resource, Unwrap(req[p].upd), target)
           err == UpdateOutcome(resource, new, KeyOf(resource, target), table)
           rest == table \ Matching(resource, KeyOf(resource, target), table)
       IN  /\ table' = IF err = "none" THEN rest \cup {new} ELSE rest
           /\ req' = [req EXCEPT ![p].pc = "done",
                                 ![p].resolved = Some(new),
                                 ![p].dberr = err,
                                 ![p].sql = Append(@, Stmt("update", 0, 0)),
                                 ![p].resp = IF err = "none" THEN OkResp(<<new>>)
                                             ELSE update_map_err(resource, err)]
    /\ UNCHANGED <<resource, started>>

\* update_*_partially / update_*_completely after the first await:
\* Update*::update on the fetched target, its map_err, the response
update_write(p) ==
    /\ req[p].pc = "fetched"
    /\ LET target == Unwrap(req[p].target)
           new == Update_update(resource, Unwrap(req[p].upd), target)
           err == UpdateOutcome(resource, new, KeyOf(resource, target), table)
       IN  /\ table' = IF err = "none"
                       THEN (table \ Matching(resource, KeyOf(resource, target), table))
                                \cup {new}
                       ELSE table
           /\ req' = [req EXCEPT ![p].pc = "done",
                                 ![p].resolved = Some(new),
                                 ![p].dberr = err,
                                 ![p].sql = Append(@, Stmt("update", 0, 0)),
                                 ![p].resp = IF err = "none" THEN OkResp(<<new>>)
                                             ELSE update_map_err(resource, err)]
    /\ UNCHANGED <<resource, started>>

\* A delete whose statement returns the matching row and leaves it stored
delete_keeps_row(p, keys) ==
    /\ CanStart(p)
    /\ \E key \in keys :
        LET hit == Matching(resource, key, table)
            err == DeleteOutcome(resource, key, table)
        IN  /\ table' = table
            /\ req' = [req EXCEPT ![p] =
                  [IdleReq EXCEPT !.pc = "done", !.op = "delete", !.key = key,
                                  !.dberr = err,
                                  !.sql = <<Stmt("delete", 0, 0)>>,
                                  !.resp = IF err = "none"
                                           THEN OkResp(<<CHOOSE r \in hit : TRUE>>)
                                           ELSE delete_map_err(resource, err)]]
    /\ started' = started + 1
    /\ UNCHANGED resource

\* #[delete] delete_*: X::delete (DELETE ... RETURNING, fetch_one), map_err
delete(p, keys) ==
    /\ CanStart(p)
    /\ \E key \in keys :
        LET hit == Matching(resource, key, table)
            err == DeleteOutcome(resource, key, table)
        IN  /\ table' = IF err = "none" THEN table \ hit ELSE table
            /\ req' = [req EXCEPT ![p] =
                  [IdleReq EXCEPT !.pc = "done", !.op = "delete", !.key = key,
                                  !.dberr = err,
                                  !.sql = <<Stmt("delete", 0, 0)>>,
                                  !.resp = IF err = "none"
                                           THEN OkResp(<<CHOOSE r \in hit : TRUE>>)
                                           ELSE delete_map_err(resource, err)]]
    /\ started' = started + 1
    /\ UNCHANGED resource

\* #[post] create_*: the Json extractor, Insert*::insert and its map_err
create(p, bodies) ==
    /\ CanStart(p)
    /\ started' = started + 1
    /\ \E json \in bodies :
        LET payload == CreatePayload(resource, json)
            fresh == [IdleReq EXCEPT !.pc = "done", !.op = "create",
                                     !.json = Some(json)]
        IN  IF ~payload.ok
            THEN /\ req' = [req EXCEPT ![p] = [fresh EXCEPT !.resp = JsonPayloadError]]
                 /\ table' = table
            ELSE LET new == Insert_insert(resource, Get(payload), table)
                     err == InsertOutcome(resource, new, table)
                 IN  /\ table' = IF err = "none" THEN table \cup {new} ELSE table
                     /\ req' = [req EXCEPT ![p] =
                            [fresh EXCEPT !.resolved = Some(new),
                                          !.dberr = err,
                                          !.sql = <<Stmt("insert", 0, 0)>>,
                                          !.resp = IF err = "none" THEN OkResp(<<new>>)
                                                   ELSE create_map_err(resource, err)]]
    /\ UNCHANGED resource

\* #[get] fetch_* by key: X::select and its map_err
fetch(p, keys) ==
    /\ CanStart(p)
    /\ started' = started + 1
    /\ \E key \in keys :
        LET found == select(resource, key, table)
            fresh == [IdleReq EXCEPT !.pc = "done", !.op = "fetch", !.key = key,
                                     !.sql = <<Stmt("select", 0, 0)>>]
        IN  req' = [req EXCEPT ![p] =
                IF IsNone(found)
                THEN [fresh EXCEPT !.dberr = "RowNotFound",
                                   !.resp = select_map_err(resource, "RowNotFound")]
                ELSE [fresh EXCEPT !.target = found,
                                   !.resp = OkResp(<<Unwrap(found)>>)]]
    /\ UNCHANGED <<resource, table>>

(***************************************************************************)
(* Listing.  GET /<resources>/ with the optional per-page and page-no      *)
(* query parameters.                                                       *)
(***************************************************************************)
\* Pagination::new
Pagination_new(total, page, per_page) ==
    [total |-> total,
     page |-> page,
     pages |-> (total \div per_page) + (total % per_page),
     per_page |-> per_page]

PaginatedResp(rows, pagination) ==
    [kind |-> "Ok", msg |-> "", data |-> rows, pagination |-> Some(pagination),
     status |-> 200]

\* A handler that answers a missing parameter with page 1 instead of an error
PaginationCheck_default_page(params) ==
    LET per_page == UnwrapOr(params.per_page, 1)
        page_no == UnwrapOr(params.page_no, 1)
    IN  IF IsNone(params.per_page) /\ IsNone(params.page_no)
        THEN [kind |-> "all", msg |-> "", per_page |-> 0, page_no |-> 0]
        ELSE IF page_no <= 0
        THEN [kind |-> "InvalidQueryParamValueError",
              msg |-> "Query param page-no must be greater than 0",
              per_page |-> 0, page_no |-> 0]
        ELSE IF per_page <= 0
        THEN [kind |-> "InvalidQueryParamValueError",
              msg |-> "Query param per-page must be greater than 0",
              per_page |-> 0, page_no |-> 0]
        ELSE [kind |-> "paged", msg |-> "", per_page |-> per_page, page_no |-> page_no]

\* A handler that serves page 1 when page-no is not positive
PaginationCheck_clamp_page(params) ==
    IF IsSome(params.per_page) /\ IsNone(params.page_no)
    THEN [kind |-> "MissingQueryParamError", msg |-> "Missing query param page-no",
          per_page |-> 0, page_no |-> 0]
    ELSE IF IsNone(params.per_page) /\ IsSome(params.page_no)
    THEN [kind |-> "MissingQueryParamError", msg |-> "Missing query param per-page",
          per_page |-> 0, page_no |-> 0]
    ELSE IF IsSome(params.per_page) /\ IsSome(params.page_no)
    THEN IF Unwrap(params.per_page) <= 0
         THEN [kind |-> "InvalidQueryParamValueError",
               msg |-> "Query param per-page must be greater than 0",
               per_page |-> 0, page_no |-> 0]
         ELSE [kind |-> "paged", msg |-> "", per_page |-> Unwrap(params.per_page),
               page_no |-> IF Unwrap(params.page_no) <= 0 THEN 1
                           ELSE Unwrap(params.page_no)]
    ELSE [kind |-> "all", msg |-> "", per_page |-> 0, page_no |-> 0]

\* Checks that page a request without parameters with defaults
PaginationCheck_default_both(params) ==
    IF IsSome(params.per_page) /\ IsNone(params.page_no)
    THEN [kind |-> "MissingQueryParamError", msg |-> "Missing query param page-no",
          per_page |-> 0, page_no |-> 0]
    ELSE IF IsNone(params.per_page) /\ IsSome(params.page_no)
    THEN [kind |-> "MissingQueryParamError", msg |-> "Missing query param per-page",
          per_page |-> 0, page_no |-> 0]
    ELSE IF IsSome(params.per_page) /\ IsSome(params.page_no)
    THEN IF Unwrap(params.page_no) <= 0
         THEN [kind |-> "InvalidQueryParamValueError",
               msg |-> "Query param page-no must be greater than 0",
               per_page |-> 0, page_no |-> 0]
         ELSE IF Unwrap(params.per_page) <= 0
         THEN [kind |-> "InvalidQueryParamValueError",
               msg |-> "Query param per-page must be greater than 0",
               per_page |-> 0, page_no |-> 0]
         ELSE [kind |-> "paged", msg |-> "", per_page |-> Unwrap(params.per_page),
               page_no |-> Unwrap(params.page_no)]
    ELSE [kind |-> "paged", msg |-> "", per_page |-> 1, page_no |-> 1]

\* Checks that look at the value of per-page before anything else
PaginationCheck_per_page_first(params) ==
    IF IsSome(params.per_page) /\ Unwrap(params.per_page) <= 0
    THEN [kind |-> "InvalidQueryParamValueError",
          msg |-> "Query param per-page must be greater than 0",
          per_page |-> 0, page_no |-> 0]
    ELSE IF IsSome(params.per_page) /\ IsNone(params.page_no)
    THEN [kind |-> "MissingQueryParamError", msg |-> "Missing query param page-no",
          per_page |-> 0, page_no |-> 0]
    ELSE IF IsNone(params.per_page) /\ IsSome(params.page_no)
    THEN [kind |-> "MissingQueryParamError", msg |-> "Missing query param per-page",
          per_page |-> 0, page_no |-> 0]
    ELSE IF IsSome(params.per_page) /\ IsSome(params.page_no)
    THEN IF Unwrap(params.page_no) <= 0
         THEN [kind |-> "InvalidQueryParamValueError",
               msg |-> "Query param page-no must be greater than 0",
               per_page |-> 0, page_no |-> 0]
         ELSE [kind |-> "paged", msg |-> "", per_page |-> Unwrap(params.per_page),
               page_no |-> Unwrap(params.page_no)]
    ELSE [kind |-> "all", msg |-> "", per_page |-> 0, page_no |-> 0]

\* fetch_*: the checks on PaginationParams, in the order the handler makes
\* them, before any statement is sent
PaginationCheck(params) ==
    IF IsSome(params.per_page) /\ IsNone(params.page_no)
    THEN [kind |-> "MissingQueryParamError", msg |-> "Missing query param page-no",
          per_page |-> 0, page_no |-> 0]
    ELSE IF IsNone(params.per_page) /\ IsSome(params.page_no)
    THEN [kind |-> "MissingQueryParamError", msg |-> "Missing query param per-page",
          per_page |-> 0, page_no |-> 0]
    ELSE IF IsSome(params.per_page) /\ IsSome(params.page_no)
    THEN LET per_page == Unwrap(params.per_page)
             page_no == Unwrap(params.page_no)
         IN  IF page_no <= 0
             THEN [kind |-> "InvalidQueryParamValueError",
                   msg |-> "Query param page-no must be greater than 0",
                   per_page |-> 0, page_no |-> 0]
             ELSE IF per_page <= 0
             THEN [kind |-> "InvalidQueryParamValueError",
                   msg |-> "Query param per-page must be greater than 0",
                   per_page |-> 0, page_no |-> 0]
             ELSE [kind |-> "paged", msg |-> "",
                   per_page |-> per_page, page_no |-> page_no]
    ELSE [kind |-> "all", msg |-> "", per_page |-> 0, page_no |-> 0]

\* Paginable<X>::get_page: the LIMIT $1 OFFSET $2 statement it sends
get_page(res, per_page, page_no) ==
    IF res = "city"
    THEN Stmt("page", per_page, page_no * per_page)
    ELSE Stmt("page", per_page, (page_no - 1) * per_page)

\* The orders in which the store may hand out the rows of a SELECT that has
\* no ORDER BY clause
ScanOrders(tbl) ==
    {s \in [1..Cardinality(tbl) -> tbl] :
        \A i \in DOMAIN s, j \in DOMAIN s : i # j => s[i] # s[j]}

Min(a, b) == IF a <= b THEN a ELSE b

\* An OFFSET past the end that is moved back to the last rows of the scan
LimitOffset_last_page(scan, limit, offset) ==
    IF scan = <<>> THEN <<>>
    ELSE IF offset >= Len(scan)
    THEN <<scan[Len(scan)]>>
    ELSE SubSeq(scan, offset + 1, Min(Len(scan), offset + limit))

\* LIMIT / OFFSET applied to a scan
LimitOffset(scan, limit, offset) ==
    SubSeq(scan, offset + 1, Min(Len(scan), offset + limit))

\* X::count
count(tbl) == Cardinality(tbl)

\* #[get] fetch_* up to its first await: the parameter checks, then either
\* X::paginate(per_page).get_page(page_no) or X::select_all
fetch_list(p, perPages, pageNos) ==
    /\ CanStart(p)
    /\ started' = started + 1
    /\ \E per_page \in perPages, page_no \in pageNos :
        LET params == [per_page |-> per_page, page_no |-> page_no]
            check == PaginationCheck(params)
            fresh == [IdleReq EXCEPT !.op = "fetch_list", !.params = params]
        IN  IF check.kind \in {"MissingQueryParamError", "InvalidQueryParamValueError"}
            THEN req' = [req EXCEPT ![p] =
                    [fresh EXCEPT !.pc = "done",
                                  !.resp = ErrResp(check.kind, check.msg)]]
            ELSE \E scan \in ScanOrders(table) :
                    IF check.kind = "all"
                    THEN req' = [req EXCEPT ![p] =
                            [fresh EXCEPT !.pc = "done",
                                          !.items = scan,
                                          !.seen = table,
                                          !.sql = <<Stmt("select_all", 0, 0)>>,
                                          !.resp = OkResp(scan)]]
                    ELSE LET stmt == get_page(resource, check.per_page, check.page_no)
                         IN  req' = [req EXCEPT ![p] =
                                [fresh EXCEPT !.pc = "paged",
                                              !.seen = table,
                                              !.items = LimitOffset(scan, stmt.limit,
                                                                    stmt.offset),
                                              !.sql = <<stmt>>]]
    /\ UNCHANGED <<resource, table>>

\* A handler whose count is taken from the same snapshot as its page
fetch_list_count_snapshot(p) ==
    /\ req[p].pc = "paged"
    /\ LET check == PaginationCheck(req[p].params)
       IN  req' = [req EXCEPT
              ![p].pc = "done",
              ![p].sql = Append(@, Stmt("count", 0, 0)),
              ![p].resp = PaginatedResp(req[p].items,
                              Pagination_new(count(req[p].seen), check.page_no,
                                             check.per_page))]
    /\ UNCHANGED <<resource, table, started>>

\* #[get] fetch_* after the page query: X::count and the paginated response
fetch_list_count(p) ==
    /\ req[p].pc = "paged"
    /\ LET check == PaginationCheck(req[p].params)
       IN  req' = [req EXCEPT
              ![p].pc = "done",
              ![p].sql = Append(@, Stmt("count", 0, 0)),
              ![p].resp = PaginatedResp(req[p].items,
                              Pagination_new(count(table), check.page_no,
                                             check.per_page))]
    /\ UNCHANGED <<resource, table, started>>

(***************************************************************************)
(* SpecResolve: one update request against a one-row table, for the        *)
(* properties of decoding and resolving.                                   *)
(***************************************************************************)
InitResolve ==
    /\ resource \in {"client", "vehicle", "dealership"}
    /\ table \in {{r} : r \in SampleRows(resource)}
    /\ req = [p \in Procs |-> IdleReq]
    /\ started = 0

ResolvePartially ==
    started = 0 /\ update_partially_fetch(1, RequestKeys(resource), PartialJsons(resource))
ResolveCompletely ==
    started = 0 /\ update_completely_fetch(1, RequestKeys(resource), CompleteJsons(resource))
ResolveWrite == update_write(1)

NextResolve == ResolvePartially \/ ResolveCompletely \/ ResolveWrite

SpecResolve == InitResolve /\ [][NextResolve]_vars

(***************************************************************************)
(* Properties of decoding and resolving (SpecResolve).                     *)
(***************************************************************************)
\* rename_all = "camelCase": the column a JSON key is read into
ColumnOf(k) ==
    CASE k = "nationalId" -> "national_id"
      [] k = "fullName" -> "full_name"
      [] k = "mainPhoneNo" -> "main_phone_no"
      [] k = "secondaryPhoneNo" -> "secondary_phone_no"
      [] k = "email" -> "email"
      [] k = "plate" -> "plate"
      [] k = "brand" -> "brand"
      [] k = "modelId" -> "model_id"
      [] k = "serialNo" -> "serial_no"
      [] k = "engineSerialNo" -> "engine_serial_no"
      [] k = "color" -> "color"
      [] k = "purchaseDate" -> "purchase_date"
      [] k = "additionalInfo" -> "additional_info"
      [] k = "maintenanceSummary" -> "maintenance_summary"
      [] k = "ownerNationalId" -> "owner_national_id"
      [] k = "rif" -> "rif"
      [] k = "name" -> "name"
      [] k = "cityNumber" -> "city_number"
      [] k = "stateId" -> "state_id"
      [] k = "managerNationalId" -> "manager_national_id"
      [] k = "description" -> "description"
      [] k = "activityNumber" -> "activity_number"
      [] k = "serviceId" -> "service_id"
      [] k = "dealershipRif" -> "dealership_rif"
      [] k = "pricePerHour" -> "price_per_hour"

\* the keys whose column is an Option<String> in the record struct
NullableKeys(res) ==
    CASE res = "vehicle" -> {"additionalInfo", "maintenanceSummary"}
      [] res = "dealership" -> {"managerNationalId"}
      [] OTHER -> {}

BodyOf(p) == Unwrap(req[p].json)

\* C1: the record an update resolves (and, when the write succeeds, stores)
\* has, for every key missing from the PATCH body, the value of the fetched
\* record.
C1_NoOpProjection ==
    \A p \in Procs :
        (req[p].op = "update_partially" /\ IsSome(req[p].resolved)) =>
            /\ \A k \in JsonKeys(resource) :
                  BodyOf(p)[k] = JMissing =>
                      Unwrap(req[p].resolved)[ColumnOf(k)]
                          = Unwrap(req[p].target)[ColumnOf(k)]
            /\ req[p].resp.kind = "Ok" => Unwrap(req[p].resolved) \in table

\* a PATCH that set one key and left another out was written
C1_Witness ==
    \E p \in Procs :
        /\ req[p].op = "update_partially"
        /\ req[p].resp.kind = "Ok"
        /\ Unwrap(req[p].resolved) # Unwrap(req[p].target)
        /\ \E k \in JsonKeys(resource) : BodyOf(p)[k] = JMissing

\* C4: a PATCH body whose only nulls are on nullable keys is accepted, and
\* every nullable key it sets to null is empty in the resolved record.
C4_NullClears ==
    \A p \in Procs :
        ( /\ req[p].op = "update_partially"
          /\ req[p].pc = "done"
          /\ Matching(resource, req[p].key, table) # {}
          /\ \A k \in JsonKeys(resource) :
                BodyOf(p)[k] = JNull => k \in NullableKeys(resource)
          /\ \E k \in NullableKeys(resource) : BodyOf(p)[k] = JNull )
        => /\ req[p].resp.kind # "JsonPayloadError"
           /\ IsSome(req[p].resolved)
           /\ \A k \in NullableKeys(resource) :
                 BodyOf(p)[k] = JNull =>
                     Unwrap(req[p].resolved)[ColumnOf(k)] = None

\* C5: a MaybeAbsent<MaybeNull<T>> key decodes, and converts to
\* Option<Option<T>>, as: missing -> None, null -> Some(None), v -> Some(Some(v)).
C5_TriState ==
    \A p \in Procs :
        (resource = "vehicle" /\ req[p].op = "update_partially" /\ IsSome(req[p].upd)) =>
            \A k \in {"additionalInfo", "maintenanceSummary"} :
                LET field == Unwrap(req[p].upd)[ColumnOf(k)]
                IN  /\ BodyOf(p)[k].t = "missing" => field = None
                    /\ BodyOf(p)[k].t = "null" => field = Some(None)
                    /\ BodyOf(p)[k].t = "val" => field = Some(Some(BodyOf(p)[k].v))

\* one vehicle PATCH with a null key and a valued key, another key missing
C5_Witness ==
    \E p \in Procs :
        /\ resource = "vehicle"
        /\ req[p].op = "update_partially"
        /\ IsSome(req[p].upd)
        /\ BodyOf(p)["additionalInfo"].t = "null"
        /\ BodyOf(p)["maintenanceSummary"].t = "val"
        /\ Unwrap(req[p].upd).additional_info = Some(None)

\* C6: a PUT whose body renders the stored record is not rejected, resolves
\* to that record and leaves it stored.
C6_CompleteIdentity ==
    \A p \in Procs :
        req[p].op = "update_completely" =>
            /\ req[p].resp.kind = "JsonPayloadError" =>
                  \A r \in Matching(resource, req[p].key, table) :
                      BodyOf(p) # RecordJson(resource, r)
            /\ ( /\ IsSome(req[p].resolved)
                 /\ BodyOf(p) = RecordJson(resource, Unwrap(req[p].target)) )
               => /\ req[p].resolved = req[p].target
                  /\ req[p].resp.kind = "Ok"
                  /\ Unwrap(req[p].target) \in table

(***************************************************************************)
(* SpecStore: workers serving update and delete requests concurrently on   *)
(* one table.  Each handler is split where it awaits the store: an update  *)
(* is two store round trips (select, then update) with no transaction      *)
(* around them.  The table starts with rows 1 and 2; requests address keys *)
(* 1, 2 and 3; a PATCH body mentions at most one key, a PUT body renders a *)
(* whole record.                                                           *)
(***************************************************************************)
StoreRows(res) ==
    CASE res = "client" -> {ClientRow(1, 1, 1), ClientRow(2, 1, 1)}
      [] res = "role" -> {RoleRow(1, 1, 1), RoleRow(2, 1, 1)}

StoreKeys == {<<1>>, <<2>>, <<3>>}

ClientStorePartialJsons == PartialBodies(ClientKeys, 1, {JNull, JVal(2)})
RoleStorePartialJsons == PartialBodies(RoleKeys, 1, {JNull, JVal(2)})

StorePartialJsons(res) ==
    CASE res = "client" -> ClientStorePartialJsons
      [] res = "role" -> RoleStorePartialJsons

StoreCompleteJsons(res) ==
    CASE res = "client" ->
            {ClientJson(ClientRow(1, 1, 1)), ClientJson(ClientRow(1, 2, 2)),
             ClientJson(ClientRow(2, 2, 1)), ClientJson(ClientRow(3, 1, 2)),
             [ClientJson(ClientRow(1, 2, 2)) EXCEPT !["email"] = JMissing]}
      [] res = "role" ->
            {RoleJson(RoleRow(1, 1, 1)), RoleJson(RoleRow(1, 2, 2)),
             RoleJson(RoleRow(1, 2, 1)),
             [RoleJson(RoleRow(1, 2, 2)) EXCEPT !["name"] = JNull]}

InitStore ==
    /\ resource \in {"client", "role"}
    /\ table = StoreRows(resource)
    /\ req = [p \in Procs |-> IdleReq]
    /\ started = 0

StorePartially ==
    \E p \in Procs :
        /\ started < MaxRequests
        /\ update_partially_fetch(p, StoreKeys, StorePartialJsons(resource))
StoreCompletely ==
    \E p \in Procs :
        /\ started < MaxRequests
        /\ update_completely_fetch(p, StoreKeys, StoreCompleteJsons(resource))
StoreWrite == \E p \in Procs : update_write(p)
StoreDelete == \E p \in Procs : started < MaxRequests /\ delete(p, StoreKeys)

StoreFetch == \E p \in Procs : started < MaxRequests /\ fetch(p, StoreKeys)

StoreCreateJsons(res) ==
    CASE res = "client" -> {ClientJson(ClientRow(1, 2, 2)), ClientJson(ClientRow(3, 1, 2))}
      [] res = "role" -> {RoleJson(RoleRow(1, 2, 1))}

StoreCreate ==
    \E p \in Procs : started < MaxRequests /\ create(p, StoreCreateJsons(resource))

\* paginated list requests for the first page, of two or three rows
StoreList ==
    \E p \in Procs :
        /\ started < MaxRequests
        /\ fetch_list(p, {Some(2), Some(3)}, {Some(1)})

StoreCount == \E p \in Procs : fetch_list_count(p)

NextStore ==
    \/ StorePartially \/ StoreCompletely \/ StoreWrite \/ StoreDelete
    \/ StoreFetch \/ StoreCreate \/ StoreList \/ StoreCount

SpecStore == InitStore /\ [][NextStore]_vars

(***************************************************************************)
(* Properties of concurrent requests (SpecStore).                          *)
(***************************************************************************)
MentionedKeys(p) == {k \in JsonKeys(resource) : BodyOf(p)[k] # JMissing}

\* C2: when the only two requests of a run are PATCHes of the same record
\* that mention disjoint keys and both succeed, the stored record carries
\* the values of both bodies.
C2_DisjointUpdatesBothKept ==
    \A p \in Procs, q \in Procs :
        ( /\ p # q
          /\ started = 2
          /\ req[p].op = "update_partially" /\ req[q].op = "update_partially"
          /\ req[p].resp.kind = "Ok" /\ req[q].resp.kind = "Ok"
          /\ req[p].key = req[q].key
          /\ MentionedKeys(p) \cap MentionedKeys(q) = {} )
        => \E r \in table :
              \A w \in {p, q} : \A k \in MentionedKeys(w) :
                  r[ColumnOf(k)] = BodyOf(w)[k].v

\* C3: an update whose write matched no row (the fetched record was deleted
\* in between) answers ResourceNotFound.
C3_VanishedRowIsNotFound ==
    \A p \in Procs :
        ( /\ req[p].op \in {"update_partially", "update_completely"}
          /\ req[p].pc = "done"
          /\ IsSome(req[p].target)
          /\ req[p].dberr = "RowNotFound" )
        => req[p].resp.kind = "ResourceNotFound"

(***************************************************************************)
(* SpecPage: list requests against a store of up to MaxRows records.       *)
(***************************************************************************)
PageRow(res, i) ==
    IF res = "city" THEN CityRow(i, 1, 1) ELSE ClientRow(i, 1, 1)

PageTables(res) == {{PageRow(res, i) : i \in 1..n} : n \in 0..MaxRows}

\* per-page / page-no as the Query extractor delivers them
ParamValues == {None} \cup {Some(n) : n \in (-1)..MaxParam}

InitPage ==
    /\ resource \in {"client", "city"}
    /\ table \in PageTables(resource)
    /\ req = [p \in Procs |-> IdleReq]
    /\ started = 0

\* list requests only read the store, so one worker serves them in turn
PageList == started < MaxRequests /\ fetch_list(1, ParamValues, ParamValues)

PageCount == fetch_list_count(1)

NextPage == PageList \/ PageCount

SpecPage == InitPage /\ [][NextPage]_vars

(***************************************************************************)
(* Properties of list requests (SpecPage).                                 *)
(***************************************************************************)
PagedRequest(p) ==
    /\ req[p].op = "fetch_list"
    /\ req[p].sql # <<>>
    /\ req[p].sql[1].stmt = "page"

RECURSIVE KeyLess(_, _)
KeyLess(a, b) ==
    IF a = <<>> \/ b = <<>> THEN a = <<>> /\ b # <<>>
    ELSE IF Head(a) # Head(b) THEN Head(a) < Head(b)
    ELSE KeyLess(Tail(a), Tail(b))

PrimaryKeyOrder(res, tbl) ==
    CHOOSE s \in ScanOrders(tbl) :
        \A i \in DOMAIN s, j \in DOMAIN s :
            i < j => KeyLess(KeyOf(res, s[i]), KeyOf(res, s[j]))

Ceiling(total, per_page) ==
    (total \div per_page) + (IF total % per_page = 0 THEN 0 ELSE 1)

ExactlyOneParam(p) ==
    /\ req[p].op = "fetch_list"
    /\ req[p].pc = "done"
    /\ IsSome(req[p].params.per_page) # IsSome(req[p].params.page_no)

\* C7: every page query asks for per_page rows starting at row offset
\* (page_no - 1) * per_page.
C7_OffsetFromPageNo ==
    \A p \in Procs :
        PagedRequest(p) =>
            /\ req[p].sql[1].limit = Unwrap(req[p].params.per_page)
            /\ req[p].sql[1].offset =
                  (Unwrap(req[p].params.page_no) - 1) * Unwrap(req[p].params.per_page)

\* C8: the pages value of the pagination metadata is the ceiling of
\* total / per_page.
C8_PagesIsCeiling ==
    \A p \in Procs :
        (req[p].pc = "done" /\ IsSome(req[p].resp.pagination)) =>
            LET m == Unwrap(req[p].resp.pagination)
            IN  m.pages = Ceiling(m.total, m.per_page)

\* C9: a page query returns the rows that its LIMIT and OFFSET select from
\* the table read in primary-key order.
C9_PrimaryKeyOrder ==
    \A p \in Procs :
        PagedRequest(p) =>
            req[p].items = LimitOffset(PrimaryKeyOrder(resource, table),
                                       req[p].sql[1].limit, req[p].sql[1].offset)

\* C10: a list request with exactly one of per-page and page-no answers
\* MissingQueryParamError naming the parameter that is missing, carries no
\* data and no pagination, and sends no statement to the store.
C10_MissingParam ==
    \A p \in Procs :
        ExactlyOneParam(p) =>
            /\ req[p].resp.kind = "MissingQueryParamError"
            /\ req[p].resp.msg = (IF IsNone(req[p].params.page_no)
                                  THEN "Missing query param page-no"
                                  ELSE "Missing query param per-page")
            /\ req[p].resp.data = <<>>
            /\ req[p].resp.pagination = None
            /\ req[p].items = <<>>
            /\ req[p].sql = <<>>

C10_Witness ==
    \E p \in Procs :
        /\ ExactlyOneParam(p)
        /\ IsNone(req[p].params.per_page)
        /\ req[p].resp.kind = "MissingQueryParamError"
        /\ started = 2
        /\ table # {}

InvalidParams(p) ==
    /\ req[p].op = "fetch_list"
    /\ IsSome(req[p].params.per_page) /\ IsSome(req[p].params.page_no)
    /\ (Unwrap(req[p].params.page_no) <= 0 \/ Unwrap(req[p].params.per_page) <= 0)

\* C11: a list request with both parameters, one of them not positive,
\* answers InvalidQueryParamValueError and sends no statement to the store.
C11_InvalidParam ==
    \A p \in Procs :
        InvalidParams(p) =>
            /\ req[p].pc = "done"
            /\ req[p].resp.kind = "InvalidQueryParamValueError"
            /\ req[p].resp.data = <<>>
            /\ req[p].sql = <<>>

C11_Witness ==
    \E p \in Procs :
        /\ InvalidParams(p)
        /\ Unwrap(req[p].params.page_no) <= 0
        /\ Unwrap(req[p].params.per_page) > 0
        /\ req[p].resp.kind = "InvalidQueryParamValueError"
        /\ table # {}

UpdateOps == {"update_partially", "update_completely"}

\* worker p takes the first step of an update whose body deserializes
UpdateStarts(p) ==
    /\ CanStart(p)
    /\ req'[p] # req[p]
    /\ req'[p].op \in UpdateOps
    /\ req'[p].resp.kind # "JsonPayloadError"

\* C12: an update addressed to a key with no stored record ends at once
\* with ResourceNotFound, has sent only its SELECT, and leaves the table as
\* it was.
C12_UpdateOfMissingKey ==
    [][ \A p \in Procs :
          (UpdateStarts(p) /\ Matching(resource, req'[p].key, table) = {}) =>
              /\ req'[p].pc = "done"
              /\ req'[p].resp.kind = "ResourceNotFound"
              /\ req'[p].sql = <<Stmt("select", 0, 0)>>
              /\ table' = table ]_vars

C12_Witness ==
    \E p \in Procs :
        /\ req[p].op \in UpdateOps
        /\ req[p].pc = "done"
        /\ IsNone(req[p].target)
        /\ req[p].dberr = "RowNotFound"
        /\ req[p].resp.kind = "ResourceNotFound"
        /\ Matching(resource, req[p].key, table) = {}
        /\ table # {}

(***************************************************************************)
(* SpecCrud: create, fetch, update and delete requests served one after    *)
(* the other against one table, for each resource.                         *)
(***************************************************************************)
\* a value that no row of a referenced table carries
Dangling == MaxVal + 1

CrudIds == {1, 2, 3}

CrudRow(res, id) ==
    CASE res = "client" -> ClientRow(id, 1, 1)
      [] res = "vehicle" -> VehicleRow(id, 1, 1, None, Some(1))
      [] res = "dealership" -> DealershipRow(id, 1, 1, IF id = 1 THEN Some(1) ELSE None)
      [] res = "role" -> RoleRow(id, 1, 1)
      [] res = "city" -> CityRow(id, 1, 1)
      [] res = "activity_price" -> ActivityPriceRow(id, 1, 1, 1)

CrudKeys(res) == {KeyOf(res, CrudRow(res, id)) : id \in CrudIds}

UnknownKey == "unknownKey"

\* the body j with one more key that no payload struct declares
WithUnknownKey(j) ==
    [k \in DOMAIN j \cup {UnknownKey} |-> IF k = UnknownKey THEN JVal(1) ELSE j[k]]

\* the keys whose value the request bodies vary: key columns, referencing
\* columns, a nullable column, a plain column
VariedKeys(res) ==
    CASE res = "client" -> {"nationalId", "email"}
      [] res = "vehicle" -> {"plate", "modelId", "ownerNationalId", "additionalInfo"}
      [] res = "dealership" -> {"rif", "cityNumber", "managerNationalId"}
      [] res = "role" -> {"name"}
      [] res = "city" -> {"name", "stateId"}
      [] res = "activity_price" -> {"activityNumber", "pricePerHour"}

\* bodies of a POST or PUT: the rendering of a record, one with a single key
\* replaced by null, by a dangling value or left out, or one with an
\* undeclared key added
CrudJsons(res) ==
    LET whole == {RecordJson(res, CrudRow(res, id)) : id \in CrudIds}
        base == RecordJson(res, CrudRow(res, 3))
    IN  whole
        \cup { [base EXCEPT ![k] = x] :
                  k \in VariedKeys(res), x \in {JNull, JMissing, JVal(Dangling)} }
        \cup { WithUnknownKey(base) }

\* bodies of a PATCH: at most one declared key, possibly an undeclared one
CrudPartialJsons(res) ==
    LET none == [k \in JsonKeys(res) |-> JMissing]
    IN  {none}
        \cup { [none EXCEPT ![k] = x] :
                  k \in VariedKeys(res), x \in {JNull, JVal(2), JVal(Dangling)} }
        \cup { WithUnknownKey(b) :
                  b \in { [none EXCEPT ![k] = JVal(2)] : k \in VariedKeys(res) } }

InitCrud ==
    /\ resource \in {"client", "vehicle", "dealership", "role", "city", "activity_price"}
    /\ table \in {{CrudRow(resource, id) : id \in 1..n} : n \in 0..2}
    /\ req = [p \in Procs |-> IdleReq]
    /\ started = 0

CrudCreate == started < MaxRequests /\ create(1, CrudJsons(resource))

CrudFetch == started < MaxRequests /\ fetch(1, CrudKeys(resource))

CrudPartially ==
    /\ started < MaxRequests
    /\ update_partially_fetch(1, CrudKeys(resource), CrudPartialJsons(resource))

CrudCompletely ==
    /\ started < MaxRequests
    /\ update_completely_fetch(1, CrudKeys(resource), CrudJsons(resource))

CrudWrite == update_write(1)

CrudDelete == started < MaxRequests /\ delete(1, CrudKeys(resource))

\* query strings of a list request: absent, rejected or accepted values
CrudParams == {None, Some(0), Some(1)}

CrudList == started < MaxRequests /\ fetch_list(1, CrudParams, CrudParams)

CrudCount == fetch_list_count(1)

NextCrud ==
    \/ CrudCreate \/ CrudFetch \/ CrudPartially \/ CrudCompletely
    \/ CrudWrite \/ CrudDelete \/ CrudList \/ CrudCount

SpecCrud == InitCrud /\ [][NextCrud]_vars

\* C13: a uniqueness violation reported by the store is answered with
\* InvalidCreateError by a create and with InvalidUpdateError by an update.
C13_UniqueViolationKind ==
    \A p \in Procs :
        (req[p].pc = "done" /\ req[p].dberr = "unique_violation") =>
            /\ req[p].op = "create" => req[p].resp.kind = "InvalidCreateError"
            /\ req[p].op \in UpdateOps => req[p].resp.kind = "InvalidUpdateError"

\* the payload keys that an error message mentions
NamedKeys(msg) ==
    CASE msg = "The specified modelId does not exist" -> {"modelId"}
      [] msg = "The specified stateId does not exist" -> {"stateId"}
      [] msg = "The specified cityNumber, stateId or managerNationalId does not exist" ->
            {"cityNumber", "stateId", "managerNationalId"}
      [] msg = "One of the specified values for the following keys does not exist: activityNumber, serviceId, dealershipRif" ->
            {"activityNumber", "serviceId", "dealershipRif"}
      [] msg = "The specified nationalId already exists" -> {"nationalId"}
      [] msg = "The specified plate already exists" -> {"plate"}
      [] msg = "The specified rif already exists or the specified managerNationalId is already being used" ->
            {"rif", "managerNationalId"}
      [] OTHER -> {}

\* C14: a create or update that the store refuses with a foreign-key
\* violation answers InvalidCreateError / InvalidUpdateError with a message
\* that names every referencing key whose value has no referenced row.
C14_ForeignKeyNamesField ==
    \A p \in Procs :
        (req[p].pc = "done" /\ req[p].dberr = "foreign_key_violation") =>
            /\ req[p].resp.kind = (IF req[p].op = "create" THEN "InvalidCreateError"
                                   ELSE "InvalidUpdateError")
            /\ DanglingKeys(resource, Unwrap(req[p].resolved))
                  \subseteq NamedKeys(req[p].resp.msg)

\* worker p starts (and, for all but a found update, finishes) a request
Starts(p) == CanStart(p) /\ req'[p] # req[p]

C16_CreateFetchRoundTrip ==
    [][ \A p \in Procs :
          Starts(p) =>
            /\ (req'[p].op = "create" /\ req'[p].resp.kind = "Ok") =>
                  \E r \in table' \ table :
                      /\ table' = table \cup {r}
                      /\ req'[p].resp.data = <<r>>
                      /\ \A k \in JsonKeys(resource) :
                            RecordJson(resource, r)[k] = Unwrap(req'[p].json)[k]
                      /\ select(resource, KeyOf(resource, r), table') = Some(r)
            /\ (req'[p].op = "fetch" /\ Matching(resource, req'[p].key, table) # {}) =>
                  /\ req'[p].resp.kind = "Ok"
                  /\ req'[p].resp.data \in {<<r>> : r \in table}
                  /\ KeyOf(resource, req'[p].resp.data[1]) = req'[p].key
                  /\ table' = table ]_vars

\* the second of two requests fetches the role that the first one created
C16_Witness ==
    /\ resource = "role"
    /\ started = 2
    /\ req[1].op = "fetch"
    /\ req[1].resp.kind = "Ok"
    /\ req[1].resp.data = <<RoleRow(3, Dangling, 1)>>

\* C17: a paginated list request reads its page first and counts second, as
\* two statements; the total it reports is the number of rows at the time
\* of the count, which is the number its data was read from only if the
\* table did not change in between.
C17_PageThenCount ==
    [][ \A p \in Procs :
          (req[p].pc = "paged" /\ req'[p].pc = "done") =>
              LET m == Unwrap(req'[p].resp.pagination)
              IN  /\ Len(req[p].sql) = 1 /\ req[p].sql[1].stmt = "page"
                  /\ req'[p].sql = Append(req[p].sql, Stmt("count", 0, 0))
                  /\ req'[p].resp.data = req[p].items
                  /\ m.total = Cardinality(table)
                  /\ table = req[p].seen => m.total = Cardinality(req[p].seen) ]_vars

\* a row was created or deleted between the two reads of a list request
C17_Witness ==
    \E p \in Procs, q \in Procs :
        /\ req[p].op = "fetch_list" /\ req[p].pc = "done"
        /\ IsSome(req[p].resp.pagination)
        /\ Unwrap(req[p].resp.pagination).total # Cardinality(req[p].seen)
        /\ req[q].op \in {"create", "delete"} /\ req[q].resp.kind = "Ok"
        /\ started = 2

NeitherParam(p) ==
    /\ req[p].op = "fetch_list"
    /\ IsNone(req[p].params.per_page) /\ IsNone(req[p].params.page_no)

\* C18: a list request with neither per-page nor page-no is answered at
\* once with every stored row, each exactly once, in an envelope without
\* pagination metadata, after one select-all statement and no count.
C18_ListAll ==
    \A p \in Procs :
        NeitherParam(p) =>
            /\ req[p].pc = "done"
            /\ req[p].resp.kind = "Ok"
            /\ req[p].resp.pagination = None
            /\ Len(req[p].resp.data) = Cardinality(table)
            /\ {req[p].resp.data[i] : i \in DOMAIN req[p].resp.data} = table
            /\ req[p].sql = <<Stmt("select_all", 0, 0)>>

C18_Witness ==
    \E p \in Procs :
        /\ NeitherParam(p)
        /\ req[p].resp.kind = "Ok"
        /\ Len(req[p].resp.data) = MaxRows
        /\ Len(req[p].sql) = 1
        /\ started = 1

BodyOps == {"create"} \cup UpdateOps

\* the body of worker p's request names a key its payload struct lacks
HasUnknownKey(r) ==
    /\ r.op \in BodyOps
    /\ IsSome(r.json)
    /\ UnknownKeys(JsonKeys(resource), Unwrap(r.json)) # {}

\* C19: a create or update whose body carries an undeclared key ends in the
\* extractor with a payload error: no statement is sent, the table is as it
\* was, and nothing of the body is resolved into a record.
C19_UnknownKeyRejected ==
    [][ \A p \in Procs :
          (Starts(p) /\ HasUnknownKey(req'[p])) =>
              /\ req'[p].pc = "done"
              /\ req'[p].resp = JsonPayloadError
              /\ req'[p].sql = <<>>
              /\ req'[p].upd = None
              /\ req'[p].resolved = None
              /\ table' = table ]_vars

\* a PATCH naming a stored row, with a declared key and an undeclared one
C19_Witness ==
    \E p \in Procs :
        /\ HasUnknownKey(req[p])
        /\ req[p].op = "update_partially"
        /\ \E k \in JsonKeys(resource) : Unwrap(req[p].json)[k] = JVal(2)
        /\ Matching(resource, req[p].key, table) # {}
        /\ req[p].resp.kind = "JsonPayloadError"
        /\ req[p].sql = <<>>

\* the status the claim gives each error kind
ClaimedStatus(kind) ==
    CASE kind = "ResourceNotFound" -> 404
      [] kind \in {"InvalidCreateError", "InvalidUpdateError",
                   "MissingQueryParamError", "DomainValidationError"} -> 400
      [] kind = "InvalidQueryParamValueError" -> 422
      [] kind = "UnexpectedError" -> 500

\* C20: each error kind has one fixed status (404 for ResourceNotFound, 400
\* for InvalidCreateError, InvalidUpdateError, MissingQueryParamError and
\* DomainValidationError, 422 for InvalidQueryParamValueError, 500 for
\* UnexpectedError); every error answer carries the status of its kind, and
\* no answer other than a success carries a 2xx status.
C20_StatusOfKind ==
    /\ \A kind \in ServiceErrorKinds : status_code(kind) = ClaimedStatus(kind)
    /\ \A p \in Procs :
          /\ req[p].resp.kind \in ServiceErrorKinds =>
                req[p].resp.status = ClaimedStatus(req[p].resp.kind)
          /\ (req[p].pc = "done" /\ req[p].resp.kind # "Ok") =>
                req[p].resp.status \notin 200..299
          /\ req[p].resp.kind = "Ok" => req[p].resp.status = 200

\* a list request with page-no 0, answered 422 after an earlier request
C20_Witness ==
    /\ started = 2
    /\ req[1].op = "fetch_list"
    /\ req[1].resp.kind = "InvalidQueryParamValueError"
    /\ req[1].resp.status = 422

\* the store errors a statement of the model can fail with
StoreErrors == {"RowNotFound", "unique_violation", "foreign_key_violation"}

\* C21: the answer to an UnexpectedError is the same whatever store error
\* it wraps: empty text, status 500, no data.
C21_UnexpectedErrorOpaque ==
    \A p \in Procs :
        req[p].resp.kind = "UnexpectedError" =>
            /\ req[p].dberr \in StoreErrors
            /\ \A cause \in StoreErrors :
                  req[p].resp = ErrResp("UnexpectedError", cause)
            /\ req[p].resp.msg = ""
            /\ req[p].resp.status = 500

\* a unique violation that its handler has no arm for
C21_Witness ==
    \E p \in Procs :
        /\ req[p].resp.kind = "UnexpectedError"
        /\ req[p].dberr = "unique_violation"
        /\ req[p].pc = "done"

RetriedOps == {"delete", "update_completely"}

\* No other writer has touched what the finished request of worker p left:
\* the row it wrote is stored and the row it removed, moved or missed is
\* absent; after a rejected write the fetched row, and the row the write
\* collided with, are still stored.
AsLeftBy(p) ==
    LET r == req[p]
        row == select(resource, r.key, table)
    IN  CASE r.resp.kind = "ResourceNotFound" -> row = None
          [] r.resp.kind = "Ok" /\ r.op = "delete" -> row = None
          [] r.resp.kind = "Ok" /\ r.op # "delete" ->
                /\ Unwrap(r.resolved) \in table
                /\ KeyOf(resource, Unwrap(r.resolved)) # r.key => row = None
          [] r.dberr = "unique_violation" ->
                /\ row = r.target
                /\ \E x \in table \ Matching(resource, r.key, table) :
                      UniqueClash(resource, Unwrap(r.resolved), x)
          [] r.dberr = "foreign_key_violation" ->
                IF r.op = "delete" THEN row # None ELSE row = r.target
          [] OTHER -> TRUE

\* worker q takes a step of the request that worker p has finished: the
\* same operation, key and body, acting on the table as p left it
RetryStep(p, q) ==
    /\ p # q
    /\ req[p].pc = "done"
    /\ req[p].op \in RetriedOps
    /\ AsLeftBy(p)
    /\ req'[q] # req[q]
    /\ req'[q].op = req[p].op
    /\ req'[q].key = req[p].key
    /\ req'[q].json = req[p].json
    /\ req[q].pc = "fetched" => req[q].target = select(resource, req[q].key, table)

\* C22: a complete update or a delete repeated with the same key and body
\* after the first has finished, with no other writer, leaves the table as
\* the first left it.
C22_RetryIdempotent ==
    [][ \A p \in Procs, q \in Procs : RetryStep(p, q) => table' = table ]_vars

\* a complete update that changed its row, then its retry, both answered Ok
C22_Witness ==
    \E p \in Procs, q \in Procs :
        /\ p # q
        /\ req[p].op = "update_completely" /\ req[q].op = "update_completely"
        /\ req[p].pc = "done" /\ req[q].pc = "done"
        /\ req[p].key = req[q].key /\ req[p].json = req[q].json
        /\ req[p].resp.kind = "Ok" /\ req[q].resp.kind = "Ok"
        /\ req[q].target = req[p].resolved
        /\ req[p].target # req[p].resolved
        /\ table # StoreRows(resource)

\* C23: a delete ends with the record, ResourceNotFound or UnexpectedError;
\* a delete the store rejects because the record is still referenced is
\* answered UnexpectedError and leaves the record stored, and a fetch of
\* the key right after it returns the record as it was.
C23_RejectedDelete ==
    [][ \A p \in Procs :
          Starts(p) =>
            /\ req'[p].op = "delete" =>
                  req'[p].resp.kind \in {"Ok", "ResourceNotFound", "UnexpectedError"}
            /\ (req'[p].op = "delete" /\ req'[p].dberr = "foreign_key_violation") =>
                  /\ req'[p].resp.kind = "UnexpectedError"
                  /\ table' = table
                  /\ Matching(resource, req'[p].key, table') # {}
            /\ ( /\ req[p].op = "delete" /\ req[p].dberr = "foreign_key_violation"
                 /\ req'[p].op = "fetch" /\ req'[p].key = req[p].key ) =>
                  /\ req'[p].resp.kind = "Ok"
                  /\ Len(req'[p].resp.data) = 1
                  /\ req'[p].resp.data[1] \in table
                  /\ KeyOf(resource, req'[p].resp.data[1]) = req[p].key ]_vars

\* the delete of a dealership that an activity price refers to, rejected
\* after an earlier request
C23_Witness ==
    /\ resource = "dealership"
    /\ started = 2
    /\ req[1].op = "delete" /\ req[1].key = <<1>>
    /\ req[1].dberr = "foreign_key_violation"
    /\ req[1].resp.kind = "UnexpectedError"
    /\ CrudRow("dealership", 1) \in table

\* C24: no step of a request that ends in an error writes to the table: the
\* step that answers with a ServiceError leaves the table as it is, as does
\* the fetch that precedes an update's write; fetch and list requests leave
\* it as it is on every path.
C24_ErrorsWriteNothing ==
    [][ \A p \in Procs :
          req'[p] # req[p] =>
            /\ (req'[p].pc = "done" /\ req'[p].resp.kind \in ServiceErrorKinds) =>
                  table' = table
            /\ req'[p].pc \in {"fetched", "paged"} => table' = table
            /\ req'[p].op \in {"fetch", "fetch_list"} => table' = table ]_vars

\* an update whose UPDATE statement was sent and rejected
C24_Witness ==
    \E p \in Procs :
        /\ req[p].op \in UpdateOps
        /\ req[p].pc = "done"
        /\ req[p].resp.kind = "InvalidUpdateError"
        /\ Len(req[p].sql) = 2
        /\ IsSome(req[p].target)
        /\ Unwrap(req[p].target) \in table

\* request r is a finished update that changed the key of its record
KeyChanged(r) ==
    /\ r.op \in UpdateOps
    /\ r.pc = "done"
    /\ r.resp.kind = "Ok"
    /\ KeyOf(resource, Unwrap(r.resolved)) # KeyOf(resource, Unwrap(r.target))

\* C25: a successful update that changes a key field rewrites the row it
\* fetched and no other: the old key then matches no row, the new key
\* matches the resolved record, every other row is as before; a fetch of
\* the old key as the next request answers ResourceNotFound and a fetch of
\* the new key answers the resolved record.
C25_WriteByFetchedKey ==
    [][ \A p \in Procs :
          /\ (req[p].pc = "fetched" /\ KeyChanged(req'[p])) =>
                LET old == Unwrap(req'[p].target)
                    new == Unwrap(req'[p].resolved)
                IN  /\ Matching(resource, KeyOf(resource, old), table') = {}
                    /\ Matching(resource, KeyOf(resource, new), table') = {new}
                    /\ table' \ {new} = table \ {old}
          /\ (KeyChanged(req[p]) /\ Starts(p) /\ req'[p].op = "fetch") =>
                LET old == Unwrap(req[p].target)
                    new == Unwrap(req[p].resolved)
                IN  /\ req'[p].key = KeyOf(resource, old) =>
                          req'[p].resp.kind = "ResourceNotFound"
                    /\ req'[p].key = KeyOf(resource, new) =>
                          req'[p].resp = OkResp(<<new>>) ]_vars

\* a client whose nationalId was changed from 1 to 3, fetched by the new key
C25_Witness ==
    /\ resource = "client"
    /\ started = 2
    /\ req[1].op = "fetch" /\ req[1].key = <<3>>
    /\ req[1].resp.kind = "Ok"
    /\ Matching(resource, <<1>>, table) = {}
    /\ Cardinality(table) = 2

\* the only two requests of the run are deletes of the same stored key
TwoDeletes(p, q) ==
    /\ p # q
    /\ started = 2
    /\ req[p].op = "delete" /\ req[q].op = "delete"
    /\ req[p].key = req[q].key
    /\ Matching(resource, req[p].key, StoreRows(resource)) # {}

FirstFailedCheck(params) ==
    IF IsSome(params.per_page) /\ IsNone(params.page_no)
    THEN <<"MissingQueryParamError", "Missing query param page-no">>
    ELSE IF IsNone(params.per_page) /\ IsSome(params.page_no)
    THEN <<"MissingQueryParamError", "Missing query param per-page">>
    ELSE IF IsNone(params.per_page)
    THEN <<"Ok", "">>
    ELSE IF Unwrap(params.page_no) <= 0
    THEN <<"InvalidQueryParamValueError", "Query param page-no must be greater than 0">>
    ELSE IF Unwrap(params.per_page) <= 0
    THEN <<"InvalidQueryParamValueError", "Query param per-page must be greater than 0">>
    ELSE <<"Ok", "">>

\* C27: a list request is answered by the first check that fails, in the
\* order missing page-no, missing per-page, page-no <= 0, per-page <= 0: a
\* per-page of 0 without page-no is a missing parameter, and a page-no <= 0
\* with a per-page <= 0 gets the page-no message.
C27_CheckOrder ==
    \A p \in Procs :
        (req[p].op = "fetch_list" /\ req[p].pc = "done") =>
            /\ <<req[p].resp.kind, req[p].resp.msg>> = FirstFailedCheck(req[p].params)
            /\ ( /\ req[p].params.per_page \in {Some(n) : n \in (-1)..0}
                 /\ req[p].params.page_no = None ) =>
                    req[p].resp.kind = "MissingQueryParamError"
            /\ ( /\ req[p].params.per_page \in {Some(n) : n \in (-1)..0}
                 /\ req[p].params.page_no \in {Some(n) : n \in (-1)..0} ) =>
                    req[p].resp.msg = "Query param page-no must be greater than 0"

\* the second request of a run, with page-no and per-page both 0
C27_Witness ==
    /\ started = 2
    /\ req[1].op = "fetch_list"
    /\ req[1].params = [per_page |-> Some(0), page_no |-> Some(0)]
    /\ req[1].resp.msg = "Query param page-no must be greater than 0"
    /\ req[1].sql = <<>>

\* a finished list request whose parameters passed every check
ValidPaged(p) ==
    /\ PagedRequest(p)
    /\ req[p].pc = "done"

\* C28: a paginated request for a page that starts at or after the end of
\* the table is answered Ok with empty data and the metadata of its
\* parameters (total rows, page, perPage); no paginated answer holds more
\* than per_page items.
C28_PagePastEnd ==
    \A p \in Procs :
        ValidPaged(p) =>
            LET per_page == Unwrap(req[p].params.per_page)
                page_no == Unwrap(req[p].params.page_no)
            IN  /\ req[p].resp.kind = "Ok"
                /\ IsSome(req[p].resp.pagination)
                /\ Len(req[p].resp.data) <= per_page
                /\ (page_no - 1) * per_page >= Cardinality(table) =>
                      /\ req[p].resp.data = <<>>
                      /\ Unwrap(req[p].resp.pagination).total = Cardinality(table)
                      /\ Unwrap(req[p].resp.pagination).page = page_no
                      /\ Unwrap(req[p].resp.pagination).per_page = per_page

\* page 3 of a table of two rows, two rows a page
C28_Witness ==
    \E p \in Procs :
        /\ ValidPaged(p)
        /\ req[p].params = [per_page |-> Some(2), page_no |-> Some(3)]
        /\ Cardinality(table) = 2
        /\ req[p].resp.data = <<>>
        /\ IsSome(req[p].resp.pagination)

(***************************************************************************)
(* 64-bit arithmetic of the page offset (SpecOffset).  The values are too   *)
(* wide to enumerate, so page_no - 1 and per_page are powers of two, kept   *)
(* as sign and exponent: [sign |-> s, exp |-> e] is s * 2^e.                *)
(***************************************************************************)
\* the width of i64, the type of per_page and page_no
I64Bits == 64

Pow2(e) == [sign |-> 1, exp |-> e]

I64Zero == [sign |-> 0, exp |-> 0]

\* i64::MIN
I64Min == [sign |-> -1, exp |-> I64Bits - 1]

\* the exponents e for which 2^e and 2^e + 1 are values of i64
I64Exps == 0..(I64Bits - 2)

\* the product of two powers of two, as a number
Product(x, y) == [sign |-> x.sign * y.sign, exp |-> x.exp + y.exp]

\* the product an i64 multiplication overflows on
Overflows(x, y) == Product(x, y).exp >= I64Bits - 1

\* x * y of two positive i64 in a build without overflow checks: the low 64
\* bits of the product, read as two's complement
wrapping_mul(x, y) ==
    IF ~Overflows(x, y) THEN Product(x, y)
    ELSE IF Product(x, y).exp = I64Bits - 1 THEN I64Min
    ELSE I64Zero

\* how `*` is compiled: with overflow checks (it panics) or without (it wraps)
Builds == {"overflow-checks", "wrapping"}

\* #[get] fetch_* for per_page = 2^b and page_no = 2^a + 1 on an empty
\* table: both pass the checks (they are positive), get_page computes
\* (page_no - 1) * per_page and sends it as OFFSET
fetch_list_i64(p, exps, builds) ==
    /\ CanStart(p)
    /\ started' = started + 1
    /\ \E a \in exps, b \in exps, build \in builds :
        LET per_page == Pow2(b)
            less_one == Pow2(a)
            offset == wrapping_mul(less_one, per_page)
            fresh == [IdleReq EXCEPT
                        !.pc = "done", !.op = "fetch_list_i64",
                        !.params = [per_page |-> Some(per_page),
                                    page_no |-> Some([less_one |-> less_one])]]
        IN  req' = [req EXCEPT ![p] =
                IF Overflows(less_one, per_page) /\ build = "overflow-checks"
                THEN [fresh EXCEPT !.resp = [NoResp EXCEPT !.kind = "panic"]]
                ELSE IF offset.sign < 0
                THEN [fresh EXCEPT
                        !.sql = <<Stmt("page", per_page, offset)>>,
                        !.dberr = "invalid_row_count_in_result_offset_clause",
                        !.resp = ErrResp("UnexpectedError",
                                         "invalid_row_count_in_result_offset_clause")]
                ELSE [fresh EXCEPT
                        !.sql = <<Stmt("page", per_page, offset), Stmt("count", 0, 0)>>,
                        !.resp = PaginatedResp(<<>>,
                                    [total |-> 0, page |-> [less_one |-> less_one],
                                     pages |-> 0, per_page |-> per_page])]]
    /\ UNCHANGED <<resource, table>>

InitOffset ==
    /\ resource \in {"client", "vehicle"}
    /\ table = {}
    /\ req = [p \in Procs |-> IdleReq]
    /\ started = 0

\* one request is enough: the offset depends on nothing but its parameters
OffsetList == started = 0 /\ fetch_list_i64(1, I64Exps, Builds)

NextOffset == OffsetList

SpecOffset == InitOffset /\ [][NextOffset]_vars

\* C29: for every accepted page_no and per_page the handler computes
\* (page_no - 1) * per_page without overflow: the OFFSET it sends is the
\* product as a number, and it is not negative.
C29_OffsetNeverOverflows ==
    \A p \in Procs :
        req[p].op = "fetch_list_i64" =>
            /\ req[p].resp.kind # "panic"
            /\ req[p].sql # <<>>
            /\ req[p].sql[1].offset =
                  Product(Unwrap(req[p].params.page_no).less_one,
                          Unwrap(req[p].params.per_page))
            /\ req[p].sql[1].offset.sign >= 0

\* the keys of a PUT body that deserialize into a MaybeNull<String> field
MaybeNullKeys(res) ==
    CASE res = "vehicle" -> {"additionalInfo", "maintenanceSummary"}
      [] OTHER -> {}

\* C30: every MaybeNull that deserialization or From<Option<T>> produces has
\* its outer option set, so converting it to Option<T> does not panic: a
\* null key of a PUT body becomes None and a value v becomes Some(v).
C30_MaybeNullIntoNeverPanics ==
    /\ \A o \in OptionOf(Vals) :
          /\ IsSome(MaybeNull_from(o))
          /\ MaybeNull_into(MaybeNull_from(o)) = o
    /\ \A p \in Procs :
          (req[p].op = "update_completely" /\ IsSome(req[p].upd)) =>
              \A k \in MaybeNullKeys(resource) :
                  LET decoded == MaybeNull_deserialize(BodyOf(p)[k])
                      field == Unwrap(req[p].upd)[ColumnOf(k)]
                  IN  /\ decoded.ok
                      /\ IsSome(Get(decoded))
                      /\ IsSome(field) /\ Len(Unwrap(field)) <= 1
                      /\ BodyOf(p)[k].t = "null" => field = Some(None)
                      /\ BodyOf(p)[k].t = "val" => field = Some(Some(BodyOf(p)[k].v))

\* a vehicle PUT with one nullable key null and the other a value
C30_Witness ==
    \E p \in Procs :
        /\ resource = "vehicle"
        /\ req[p].op = "update_completely"
        /\ IsSome(req[p].upd)
        /\ BodyOf(p)["additionalInfo"].t = "null"
        /\ BodyOf(p)["maintenanceSummary"].t = "val"
        /\ Unwrap(req[p].upd).additional_info = Some(None)
        /\ req[p].resp.kind = "Ok"

====
